---- MODULE Spec2Model ----
(***************************************************************************)
(* Room state engine and operation log of xr-collab:                       *)
(*   backend/rooms.js      RoomManager (entity store)                      *)
(*   backend/undo-redo.js  commands and OperationLogManager                *)
(*   backend/server.js     socket handlers, whiteboard locks               *)
(*   backend/middleware.js RedisStore (set / get / del)                    *)
(*   backend/worker-bridge.js WorkerBridge (selection, retry, health)     *)
(*                                                                         *)
(* Conventions.  A JavaScript value that may be null/undefined is a        *)
(* sequence of length 0 or 1.  Snapshots and patches held by a command     *)
(* (before / after) are sequences of records.  Every socket handler is one *)
(* action (single event loop, one mutation at a time); where overlapping   *)
(* handlers matter a handler is cut at its await into a Begin and an End   *)
(* action, and the suspended part waits in inflight.  Date.now() is the    *)
(* variable now, advanced by Tick.  Scene objects keep the fields id,      *)
(* position, _version, _updatedAt, _lastModifiedBy; the other fields       *)
(* (rotation, scale, color, material, createdAt, createdBy) are carried    *)
(* through every operation the same way as position and are left out.     *)
(* Rooms keep id, users (in insertion order), objects, whiteboards,        *)
(* maxUsers, persistent, ownerId, passwordHash; name, isPublic and created *)
(* take no part in any decision and are left out.                          *)
(***************************************************************************)
EXTENDS Integers, Sequences, FiniteSets, TLC

\* ------------------------------------------------------------------ bounds
StartTime == 1000
TickMs == 500
MaxTime == 2000
LongTickMs == 600
MaxEvents == 4
LockMaxTime == 6000
MaxDraws == 502
BoardDraws == 3
LongTtlMs == 60000
LockCapMs == 10000

\* ------------------------------------------------------- program constants
maxSteps == 100
maxTimeline == 500
mergeWindowMs == 500
defaultMaxUsers == 50
WHITEBOARD_LOCK_TTL_MS == 4000
maxWhiteboardHistory == 500

\* ------------------------------------------------------------ value spaces
NoUser == "none"
NoObj == "none"
NoKey == "none"
NoRoom == "none"
NoPos == 0 - 1
Absent == 0 - 2
DefaultPos == 0

UserIds == {"A", "B"}
SocketIds == UserIds \cup {"A2"}
\* no handler is suspended
NoInflight == [s \in SocketIds |-> <<>>]
WorkerNames == <<"railway", "koyeb">>
\* new WorkerBridge(): every worker healthy, no health check running
NewBridge == [workers |-> [k \in 1..Len(WorkerNames) |->
                            [name |-> WorkerNames[k], healthy |-> TRUE]],
              currentIndex |-> 0,
              checking |-> 0]
ObjIds == {"o1"}
MergeObjIds == {"o1", "o2"}
MoreMergeKeys == {NoKey, "k", "j"}
RoomIds == {"R1"}
RawRoomIds == {<<"R", "1">>, <<"r", "1">>, <<" ", "r", "1", " ">>}
Positions == {1, 2}
MergeKeys == {NoKey, "k"}
WhiteboardIds == {"w1"}
Passwords == {"", "pw"}
MaxUsersOptions == {0 - 1, 0, 1, 2}
TtlOptions == {0, 100, 1000}
LongTtlOptions == {0, 1000, LongTtlMs}

CREATE_OBJECT == "CREATE_OBJECT"
DELETE_OBJECT == "DELETE_OBJECT"
UPDATE_OBJECT == "UPDATE_OBJECT"
CLEAR_OBJECTS == "CLEAR_OBJECTS"

VARIABLES
  now,             \* Date.now()
  rooms,           \* RoomManager.rooms: room id -> <<>> or <<room>>
  stacksByRoom,    \* OperationLogManager.stacksByRoom: room -> user -> <<>> or <<[undo, redo]>>
  timelineByRoom,  \* OperationLogManager.timelineByRoom: room -> sequence of entries
  cmdSeq,          \* number of commands constructed so far (gives command ids)
  events,          \* number of handler invocations so far (bounds the exploration)
  recorded,        \* history: room -> user -> number of record() calls
  result,          \* history: what the last handler did and returned
  run,             \* history: current run of one user's operations on one object
  lastMutAt,       \* history: object id -> user -> time of that user's last mutation (0: never)
  lastMutator,     \* history: object id -> user who mutated it last (NoUser: never)
  redis,           \* RedisStore: [enabled, data: room id -> <<>> or <<serialized room>>]
  currentRoom,     \* socket.data.currentRoom of each user's session (NoRoom: null)
  whiteboardLocksByRoom,  \* room -> whiteboard id -> <<>> or <<lock>>
  drawSeq,         \* number of whiteboard actions sent so far (gives action ids)
  inflight,        \* handlers suspended at an await: connection -> sequence of continuations
  emitted,         \* history: the events broadcast to the room so far, in order
  bridge           \* WorkerBridge: [workers, currentIndex, checking (healthCheck's position)]

vars == <<now, rooms, stacksByRoom, timelineByRoom, cmdSeq, events, recorded,
          result, run, lastMutAt, lastMutator, redis, currentRoom,
          whiteboardLocksByRoom, drawSeq,
                 inflight, emitted, bridge>>

\* ============================================================ middleware.js

\* RedisStore.set / get / del on the keys room:<id>
redisSet(store, key, value) ==
  IF ~store.enabled THEN store ELSE [store EXCEPT !.data[key] = <<value>>]

redisGet(store, key) ==
  IF ~store.enabled THEN <<>> ELSE store.data[key]

redisDel(store, key) ==
  IF ~store.enabled THEN store ELSE [store EXCEPT !.data[key] = <<>>]

\* the message of the error that a call on the lost connection rejects with
StoreError == "Connection is closed."

\* RedisStore.set / get / del await the client's call without a catch: with the store
\* enabled and the connection lost (down), the call rejects.  The connection is lost
\* in the specification Outage only; the handlers outside it are modelled for a store
\* that answers.
redisThrows(store) == store.enabled /\ store.down

\* ================================================================ rooms.js

\* room.objects.findIndex(candidate => String(candidate.id) === id); 0 when absent
findIndex(objects, id) ==
  IF \E i \in 1..Len(objects) : objects[i].id = id
  THEN CHOOSE i \in 1..Len(objects) :
         /\ objects[i].id = id
         /\ \A j \in 1..(i - 1) : objects[j].id # id
  ELSE 0

\* RoomManager.getObject: <<>> when absent, else <<deep copy>>
getObject(objects, id) ==
  IF findIndex(objects, id) = 0 THEN <<>> ELSE <<objects[findIndex(objects, id)]>>

\* what a client sends with object-create
Payload(id, position) ==
  [id |-> id, position |-> position, _version |-> 0, _updatedAt |-> 0,
   _lastModifiedBy |-> NoUser]

normalizeObjectPayload(object, actorId, t) ==
  LET normalized ==
        [id |-> object.id,
         position |-> IF object.position = NoPos THEN DefaultPos ELSE object.position,
         _version |-> object._version,
         _updatedAt |-> IF object._updatedAt = 0 THEN t ELSE object._updatedAt,
         _lastModifiedBy |-> object._lastModifiedBy]
  IN IF actorId # NoUser
     THEN [normalized EXCEPT !._version = @ + 1,
                             !._updatedAt = t,
                             !._lastModifiedBy = actorId]
     ELSE normalized

upsertObject(objects, object, actorId, t) ==
  LET normalized == normalizeObjectPayload(object, actorId, t)
      objectIndex == findIndex(objects, normalized.id)
  IN IF objectIndex > 0
     THEN [objects EXCEPT ![objectIndex] = normalized]
     ELSE Append(objects, normalized)

removeObject(objects, id) ==
  LET objectIndex == findIndex(objects, id)
  IN IF objectIndex = 0 THEN objects
     ELSE SubSeq(objects, 1, objectIndex - 1) \o SubSeq(objects, objectIndex + 1, Len(objects))

\* updates is a patch <<[position |-> p]>>; absent object: no-op (returns null)
updateObject(objects, id, updates, actorId, t) ==
  LET objectIndex == findIndex(objects, id)
  IN IF objectIndex = 0 THEN objects
     ELSE LET currentObject == objects[objectIndex]
              mergedObject == [currentObject EXCEPT !.position = updates[1].position]
          IN [objects EXCEPT ![objectIndex] = normalizeObjectPayload(mergedObject, actorId, t)]

\* buildCommandContext(...).restoreObjects: upsert every object of the list
RECURSIVE restoreObjects(_, _, _, _)
restoreObjects(objects, list, actorId, t) ==
  IF list = <<>> THEN objects
  ELSE restoreObjects(upsertObject(objects, Head(list), actorId, t), Tail(list), actorId, t)

\* hashPassword: null for an empty password, else the digest
hashPassword(password) ==
  IF password = "" THEN NoKey ELSE "sha256(" \o password \o ")"

\* position of userId in the insertion-ordered room.users; 0 when absent
userIndex(users, userId) ==
  IF \E i \in 1..Len(users) : users[i].userId = userId
  THEN CHOOSE i \in 1..Len(users) : users[i].userId = userId
  ELSE 0

\* hydrateRoom(JSON.parse(data)); serializeRoom lists room.users in insertion order
hydrateRoom(rawRoom) ==
  [id |-> rawRoom.id,
   users |-> SelectSeq(rawRoom.users, LAMBDA user : user.userId # NoUser),
   objects |-> rawRoom.objects,
   whiteboards |-> rawRoom.whiteboards,
   maxUsers |-> IF rawRoom.maxUsers = 0 THEN defaultMaxUsers ELSE rawRoom.maxUsers,
   persistent |-> rawRoom.persistent,
   ownerId |-> rawRoom.ownerId,
   passwordHash |-> rawRoom.passwordHash]

\* persistRoom: redis.set(room:<id>, serializeRoom(room)) for persistent rooms only
persistRoom(store, room) ==
  IF ~room.persistent THEN store ELSE redisSet(store, "room:" \o room.id, room)

\* persistRoom awaits redis.set without a catch: it rejects when the set rejects
persistRoomThrows(store, room) == room.persistent /\ redisThrows(store)

\* String.prototype.toUpperCase on one character
toUpperCase(c) == IF c = "r" THEN "R" ELSE c

\* String.prototype.trim on a sequence of characters
RECURSIVE trim(_)
trim(chars) ==
  IF chars = <<>> THEN <<>>
  ELSE IF Head(chars) = " " THEN trim(Tail(chars))
  ELSE IF chars[Len(chars)] = " " THEN trim(SubSeq(chars, 1, Len(chars) - 1))
  ELSE chars

\* the string made of a sequence of characters
RECURSIVE stringOf(_)
stringOf(chars) == IF chars = <<>> THEN "" ELSE Head(chars) \o stringOf(Tail(chars))

\* normalizeRoomId(roomId): String(roomId || "").trim().toUpperCase(), of a room id
\* given as its sequence of characters
normalizeRoomId(roomId) ==
  stringOf([i \in 1..Len(trim(roomId)) |-> toUpperCase(trim(roomId)[i])])

\* variant: a room that exists is replaced by the new one
createRoomReplaces(rs, store, options) ==
  LET roomId == normalizeRoomId(options.roomId)
      room == [id |-> roomId,
               users |-> <<>>,
               objects |-> <<>>,
               whiteboards |-> <<>>,
               maxUsers |-> IF options.maxUsers = 0 THEN defaultMaxUsers
                            ELSE options.maxUsers,
               persistent |-> options.persistent,
               ownerId |-> options.ownerId,
               passwordHash |-> hashPassword(options.password)]
  IN [ok |-> TRUE, error |-> "",
      rooms |-> [rs EXCEPT ![roomId] = <<room>>],
      redis |-> persistRoom(store, room)]

\* createRoom; options.roomId is the sequence of characters of a non-empty id and
\* options.maxUsers is a number (Number(x) || 50)
createRoom(rs, store, options) ==
  LET roomId == normalizeRoomId(options.roomId)
  IN IF rs[roomId] # <<>>
     THEN [ok |-> FALSE, error |-> "Room already exists", rooms |-> rs, redis |-> store]
     ELSE LET room == [id |-> roomId,
                       users |-> <<>>,
                       objects |-> <<>>,
                       whiteboards |-> <<>>,
                       maxUsers |-> IF options.maxUsers = 0 THEN defaultMaxUsers
                                    ELSE options.maxUsers,
                       persistent |-> options.persistent,
                       ownerId |-> options.ownerId,
                       passwordHash |-> hashPassword(options.password)]
          IN [ok |-> TRUE, error |-> "",
              rooms |-> [rs EXCEPT ![roomId] = <<room>>],
              redis |-> persistRoom(store, room)]

\* getRoom: the room in memory, else the room hydrated from redis and kept in memory
getRoom(rs, store, roomId) ==
  IF rs[roomId] # <<>>
  THEN [rooms |-> rs, room |-> rs[roomId]]
  ELSE LET data == redisGet(store, "room:" \o roomId)
       IN IF data = <<>>
          THEN [rooms |-> rs, room |-> <<>>]
          ELSE [rooms |-> [rs EXCEPT ![roomId] = <<hydrateRoom(data[1])>>],
                room |-> <<hydrateRoom(data[1])>>]

\* variant: a refused join has already stored the user
joinRoomStoresBeforeChecks(rs, store, roomId, userId, socketId, password, t) ==
  LET got == getRoom(rs, store, roomId)
  IN IF got.room = <<>>
     THEN [ok |-> FALSE, error |-> "Room not found", rooms |-> got.rooms, redis |-> store]
     ELSE LET room == got.room[1]
              existing == userIndex(room.users, userId)
              joinedUser == [userId |-> userId, socketId |-> socketId,
                             joinedAt |-> IF existing # 0
                                          THEN room.users[existing].joinedAt ELSE t]
              joined == [room EXCEPT
                           !.users = IF existing # 0
                                     THEN [room.users EXCEPT ![existing] = joinedUser]
                                     ELSE Append(room.users, joinedUser),
                           !.ownerId = IF room.ownerId = NoUser THEN userId
                                       ELSE room.ownerId]
          IN IF /\ room.passwordHash # NoKey
                /\ hashPassword(password) # room.passwordHash
             THEN [ok |-> FALSE, error |-> "Invalid room password",
                   rooms |-> [got.rooms EXCEPT ![roomId] = <<joined>>], redis |-> store]
             ELSE IF existing = 0 /\ Len(room.users) >= room.maxUsers
             THEN [ok |-> FALSE, error |-> "Room is full",
                   rooms |-> [got.rooms EXCEPT ![roomId] = <<joined>>], redis |-> store]
             ELSE [ok |-> TRUE, error |-> "",
                   rooms |-> [got.rooms EXCEPT ![roomId] = <<joined>>],
                   redis |-> persistRoom(store, joined)]

\* variant: a member who joins again is counted against maxUsers
joinRoomCountsRejoin(rs, store, roomId, userId, socketId, password, t) ==
  LET got == getRoom(rs, store, roomId)
  IN IF got.room = <<>>
     THEN [ok |-> FALSE, error |-> "Room not found", rooms |-> got.rooms, redis |-> store]
     ELSE LET room == got.room[1]
              existing == userIndex(room.users, userId)
              joinedUser == [userId |-> userId, socketId |-> socketId,
                             joinedAt |-> IF existing # 0
                                          THEN room.users[existing].joinedAt ELSE t]
              joined == [room EXCEPT
                           !.users = IF existing # 0
                                     THEN [room.users EXCEPT ![existing] = joinedUser]
                                     ELSE Append(room.users, joinedUser),
                           !.ownerId = IF room.ownerId = NoUser THEN userId
                                       ELSE room.ownerId]
          IN IF /\ room.passwordHash # NoKey
                /\ hashPassword(password) # room.passwordHash
             THEN [ok |-> FALSE, error |-> "Invalid room password",
                   rooms |-> got.rooms, redis |-> store]
             ELSE IF Len(room.users) >= room.maxUsers
             THEN [ok |-> FALSE, error |-> "Room is full",
                   rooms |-> got.rooms, redis |-> store]
             ELSE [ok |-> TRUE, error |-> "",
                   rooms |-> [got.rooms EXCEPT ![roomId] = <<joined>>],
                   redis |-> persistRoom(store, joined)]

\* joinRoom(roomId, userId, userData, password); a rejected redis.get (getRoom) or
\* redis.set (persistRoom, after room.users.set) rejects the call
joinRoom(rs, store, roomId, userId, socketId, password, t) ==
  LET got == getRoom(rs, store, roomId)
  IN IF rs[roomId] = <<>> /\ redisThrows(store)
     THEN [ok |-> FALSE, error |-> StoreError, rooms |-> rs, redis |-> store]
     ELSE IF got.room = <<>>
     THEN [ok |-> FALSE, error |-> "Room not found", rooms |-> got.rooms, redis |-> store]
     ELSE LET room == got.room[1]
              existing == userIndex(room.users, userId)
              joinedUser == [userId |-> userId, socketId |-> socketId,
                             joinedAt |-> IF existing # 0
                                          THEN room.users[existing].joinedAt ELSE t]
              joined == [room EXCEPT
                           !.users = IF existing # 0
                                     THEN [room.users EXCEPT ![existing] = joinedUser]
                                     ELSE Append(room.users, joinedUser),
                           !.ownerId = IF room.ownerId = NoUser THEN userId
                                       ELSE room.ownerId]
          IN IF /\ room.passwordHash # NoKey
                /\ hashPassword(password) # room.passwordHash
             THEN [ok |-> FALSE, error |-> "Invalid room password",
                   rooms |-> got.rooms, redis |-> store]
             ELSE IF existing = 0 /\ Len(room.users) >= room.maxUsers
             THEN [ok |-> FALSE, error |-> "Room is full",
                   rooms |-> got.rooms, redis |-> store]
             ELSE IF persistRoomThrows(store, joined)
             THEN [ok |-> FALSE, error |-> StoreError,
                   rooms |-> [got.rooms EXCEPT ![roomId] = <<joined>>], redis |-> store]
             ELSE [ok |-> TRUE, error |-> "",
                   rooms |-> [got.rooms EXCEPT ![roomId] = <<joined>>],
                   redis |-> persistRoom(store, joined)]

\* variant: an emptied room is removed whether it is persistent or not
leaveRoomRemovesPersistent(rs, store, roomId, userId) ==
  LET got == getRoom(rs, store, roomId)
  IN IF got.room = <<>>
     THEN [rooms |-> got.rooms, redis |-> store]
     ELSE LET room == got.room[1]
              remaining == SelectSeq(room.users, LAMBDA user : user.userId # userId)
              left == [room EXCEPT
                         !.users = remaining,
                         !.ownerId = IF room.ownerId # userId THEN room.ownerId
                                     ELSE IF remaining # <<>> THEN remaining[1].userId
                                     ELSE NoUser]
          IN IF remaining = <<>>
             THEN [rooms |-> [got.rooms EXCEPT ![roomId] = <<>>],
                   redis |-> redisDel(store, "room:" \o room.id)]
             ELSE [rooms |-> [got.rooms EXCEPT ![roomId] = <<left>>],
                   redis |-> persistRoom(store, left)]

\* variant: the owner who leaves stays the owner
leaveRoomKeepsOwner(rs, store, roomId, userId) ==
  LET got == getRoom(rs, store, roomId)
  IN IF got.room = <<>>
     THEN [rooms |-> got.rooms, redis |-> store]
     ELSE LET room == got.room[1]
              remaining == SelectSeq(room.users, LAMBDA user : user.userId # userId)
              left == [room EXCEPT
                         !.users = remaining,
                         !.ownerId = room.ownerId]
          IN IF remaining = <<>> /\ ~room.persistent
             THEN [rooms |-> [got.rooms EXCEPT ![roomId] = <<>>],
                   redis |-> redisDel(store, "room:" \o room.id)]
             ELSE [rooms |-> [got.rooms EXCEPT ![roomId] = <<left>>],
                   redis |-> persistRoom(store, left)]

\* variant: a room that lost its last member is kept
leaveRoomKeepsEmptyRoom(rs, store, roomId, userId) ==
  LET got == getRoom(rs, store, roomId)
  IN IF got.room = <<>>
     THEN [rooms |-> got.rooms, redis |-> store]
     ELSE LET room == got.room[1]
              remaining == SelectSeq(room.users, LAMBDA user : user.userId # userId)
              left == [room EXCEPT
                         !.users = remaining,
                         !.ownerId = IF room.ownerId # userId THEN room.ownerId
                                     ELSE IF remaining # <<>> THEN remaining[1].userId
                                     ELSE NoUser]
          IN IF FALSE
             THEN [rooms |-> [got.rooms EXCEPT ![roomId] = <<>>],
                   redis |-> redisDel(store, "room:" \o room.id)]
             ELSE [rooms |-> [got.rooms EXCEPT ![roomId] = <<left>>],
                   redis |-> persistRoom(store, left)]

\* leaveRoom(roomId, userId)
leaveRoom(rs, store, roomId, userId) ==
  LET got == getRoom(rs, store, roomId)
  IN IF got.room = <<>>
     THEN [rooms |-> got.rooms, redis |-> store]
     ELSE LET room == got.room[1]
              remaining == SelectSeq(room.users, LAMBDA user : user.userId # userId)
              left == [room EXCEPT
                         !.users = remaining,
                         !.ownerId = IF room.ownerId # userId THEN room.ownerId
                                     ELSE IF remaining # <<>> THEN remaining[1].userId
                                     ELSE NoUser]
          IN IF remaining = <<>> /\ ~room.persistent
             THEN [rooms |-> [got.rooms EXCEPT ![roomId] = <<>>],
                   redis |-> redisDel(store, "room:" \o room.id)]
             ELSE [rooms |-> [got.rooms EXCEPT ![roomId] = <<left>>],
                   redis |-> persistRoom(store, left)]

\* index of the whiteboard in room.whiteboards; 0 when absent
whiteboardIndex(whiteboards, whiteboardId) ==
  IF \E i \in 1..Len(whiteboards) : whiteboards[i].id = whiteboardId
  THEN CHOOSE i \in 1..Len(whiteboards) :
         /\ whiteboards[i].id = whiteboardId
         /\ \A j \in 1..(i - 1) : whiteboards[j].id # whiteboardId
  ELSE 0

\* variant: the trim keeps the oldest 500 actions
pushHistoryKeepsOldest(history, action) ==
  LET pushed == Append(history, action)
  IN IF Len(pushed) > maxWhiteboardHistory
     THEN SubSeq(pushed, 1, maxWhiteboardHistory)
     ELSE pushed

\* history.push(action) and the trim to the newest 500 actions
pushHistory(history, action) ==
  LET pushed == Append(history, action)
  IN IF Len(pushed) > maxWhiteboardHistory
     THEN SubSeq(pushed, Len(pushed) - maxWhiteboardHistory + 1, Len(pushed))
     ELSE pushed

\* appendWhiteboardAction on room.whiteboards (the whiteboard exists)
appendWhiteboardAction(whiteboards, whiteboardId, action, actorId, t) ==
  [whiteboards EXCEPT ![whiteboardIndex(whiteboards, whiteboardId)] =
     [@ EXCEPT !.history = pushHistory(@, action),
               !.redoStack = <<>>,
               !.updatedAt = t,
               !.updatedBy = actorId]]

\* upsertWhiteboard; the payload carries id and position (NoPos: not sent), and it may
\* carry a history and a redoStack of its own
upsertWhiteboard(whiteboards, whiteboard, actorId, t) ==
  LET index == whiteboardIndex(whiteboards, whiteboard.id)
      normalized ==
        [id |-> whiteboard.id,
         history |-> IF "history" \in DOMAIN whiteboard THEN whiteboard.history
                     ELSE IF index # 0 THEN whiteboards[index].history ELSE <<>>,
         redoStack |-> IF "redoStack" \in DOMAIN whiteboard THEN whiteboard.redoStack
                       ELSE IF index # 0 THEN whiteboards[index].redoStack ELSE <<>>,
         position |-> IF whiteboard.position # NoPos THEN whiteboard.position
                      ELSE IF index # 0 THEN whiteboards[index].position
                      ELSE DefaultPos,
         updatedAt |-> t,
         updatedBy |-> actorId]
  IN IF index # 0
     THEN [whiteboards EXCEPT ![index] = normalized]
     ELSE Append(whiteboards, normalized)

\* removeWhiteboard (the whiteboard exists)
removeWhiteboard(whiteboards, whiteboardId) ==
  LET index == whiteboardIndex(whiteboards, whiteboardId)
  IN SubSeq(whiteboards, 1, index - 1) \o SubSeq(whiteboards, index + 1, Len(whiteboards))

\* variant: the popped action is not kept for redo
undoWhiteboardActionDropsAction(whiteboards, whiteboardId, actorId, t) ==
  LET index == whiteboardIndex(whiteboards, whiteboardId)
      whiteboard == whiteboards[index]
  IN IF whiteboard.history = <<>> THEN whiteboards
     ELSE [whiteboards EXCEPT ![index] =
             [@ EXCEPT !.history = SubSeq(@, 1, Len(@) - 1),
                       !.updatedAt = t,
                       !.updatedBy = actorId]]

\* undoWhiteboardAction (the whiteboard exists)
undoWhiteboardAction(whiteboards, whiteboardId, actorId, t) ==
  LET index == whiteboardIndex(whiteboards, whiteboardId)
      whiteboard == whiteboards[index]
  IN IF whiteboard.history = <<>> THEN whiteboards
     ELSE [whiteboards EXCEPT ![index] =
             [@ EXCEPT !.history = SubSeq(@, 1, Len(@) - 1),
                       !.redoStack = Append(@, whiteboard.history[Len(whiteboard.history)]),
                       !.updatedAt = t,
                       !.updatedBy = actorId]]

\* redoWhiteboardAction (the whiteboard exists)
redoWhiteboardAction(whiteboards, whiteboardId, actorId, t) ==
  LET index == whiteboardIndex(whiteboards, whiteboardId)
      whiteboard == whiteboards[index]
  IN IF whiteboard.redoStack = <<>> THEN whiteboards
     ELSE [whiteboards EXCEPT ![index] =
             [@ EXCEPT !.redoStack = SubSeq(@, 1, Len(@) - 1),
                       !.history = Append(@, whiteboard.redoStack[Len(whiteboard.redoStack)]),
                       !.updatedAt = t,
                       !.updatedBy = actorId]]

\* ============================================================ undo-redo.js

createCommand(id, type, userId, objectId, before, after, mergeKey, t) ==
  [id |-> id, type |-> type, userId |-> userId, objectId |-> objectId,
   timestamp |-> t, before |-> before, after |-> after,
   mergeKey |-> mergeKey, merged |-> 0]

\* variant: the merge window excludes its upper end
canMergeWithOpenWindow(this, nextCommand, window) ==
  /\ this.type = UPDATE_OBJECT
  /\ nextCommand.type = UPDATE_OBJECT
  /\ this.objectId # NoObj
  /\ this.objectId = nextCommand.objectId
  /\ this.mergeKey # NoKey
  /\ nextCommand.mergeKey # NoKey
  /\ this.mergeKey = nextCommand.mergeKey
  /\ nextCommand.timestamp - this.timestamp < window

\* variant: two commands with mergeKeys merge whether the keys are equal or not
canMergeWithAnyKey(this, nextCommand, window) ==
  /\ this.type = UPDATE_OBJECT
  /\ nextCommand.type = UPDATE_OBJECT
  /\ this.objectId # NoObj
  /\ this.objectId = nextCommand.objectId
  /\ this.mergeKey # NoKey
  /\ nextCommand.mergeKey # NoKey
  /\ nextCommand.timestamp - this.timestamp <= window

\* UpdateObjectCommand.canMergeWith (BaseCommand.canMergeWith returns false)
canMergeWith(this, nextCommand, window) ==
  /\ this.type = UPDATE_OBJECT
  /\ nextCommand.type = UPDATE_OBJECT
  /\ this.objectId # NoObj
  /\ this.objectId = nextCommand.objectId
  /\ this.mergeKey # NoKey
  /\ nextCommand.mergeKey # NoKey
  /\ this.mergeKey = nextCommand.mergeKey
  /\ nextCommand.timestamp - this.timestamp <= window

\* UpdateObjectCommand.merge
merge(this, nextCommand) ==
  [this EXCEPT !.after = nextCommand.after,
               !.timestamp = nextCommand.timestamp,
               !.mergeKey = nextCommand.mergeKey,
               !.merged = (IF this.merged = 0 THEN 1 ELSE this.merged) + 1]

\* the condition of the if in OperationLogManager.record
mergesIntoLast(undoStack, command) ==
  /\ Len(undoStack) > 0
  /\ canMergeWith(undoStack[Len(undoStack)], command, mergeWindowMs)

\* variant: beyond maxSteps the newest entry is dropped
pushBoundedDropsNewest(stack, command) ==
  LET pushed == Append(stack, command)
  IN IF Len(pushed) > maxSteps THEN stack ELSE pushed

\* push with eviction of the oldest entry beyond maxSteps
pushBounded(stack, command) ==
  LET pushed == Append(stack, command)
  IN IF Len(pushed) > maxSteps THEN Tail(pushed) ELSE pushed

\* variant: a merged command leaves the redo stack as it is
recordKeepsRedoOnMerge(stack, command) ==
  [undo |-> IF mergesIntoLast(stack.undo, command)
            THEN [stack.undo EXCEPT ![Len(stack.undo)] = merge(@, command)]
            ELSE pushBounded(stack.undo, command),
   redo |-> IF mergesIntoLast(stack.undo, command) THEN stack.redo ELSE <<>>]

\* the stack part of OperationLogManager.record
record(stack, command) ==
  [undo |-> IF mergesIntoLast(stack.undo, command)
            THEN [stack.undo EXCEPT ![Len(stack.undo)] = merge(@, command)]
            ELSE pushBounded(stack.undo, command),
   redo |-> <<>>]

\* variant: the undone command is read but not popped
undoStacksKeepsTop(stack) ==
  [undo |-> stack.undo,
   redo |-> pushBounded(stack.redo, stack.undo[Len(stack.undo)])]

\* the stack part of OperationLogManager.undo (stack.undo is not empty)
undoStacks(stack) ==
  [undo |-> SubSeq(stack.undo, 1, Len(stack.undo) - 1),
   redo |-> pushBounded(stack.redo, stack.undo[Len(stack.undo)])]

\* the stack part of OperationLogManager.redo (stack.redo is not empty)
redoStacks(stack) ==
  [undo |-> pushBounded(stack.undo, stack.redo[Len(stack.redo)]),
   redo |-> SubSeq(stack.redo, 1, Len(stack.redo) - 1)]

\* OperationLogManager.ensureUserStack followed by the read of the entry
userStack(r, u) ==
  IF stacksByRoom[r][u] = <<>> THEN [undo |-> <<>>, redo |-> <<>>]
  ELSE stacksByRoom[r][u][1]

\* variant: a full timeline drops the new entry instead of the oldest
appendTimelineDropsNewest(timeline, command, mode, conflict) ==
  LET entry == [id |-> command.id, type |-> command.type, userId |-> command.userId,
                objectId |-> command.objectId, timestamp |-> command.timestamp,
                status |-> IF mode = "undo" THEN "undone" ELSE "done",
                mode |-> mode, conflict |-> conflict]
      appended == Append(timeline, entry)
  IN IF Len(appended) > maxTimeline
     THEN SubSeq(appended, 1, maxTimeline)
     ELSE appended

\* OperationLogManager.appendTimeline
appendTimeline(timeline, command, mode, conflict) ==
  LET entry == [id |-> command.id, type |-> command.type, userId |-> command.userId,
                objectId |-> command.objectId, timestamp |-> command.timestamp,
                status |-> IF mode = "undo" THEN "undone" ELSE "done",
                mode |-> mode, conflict |-> conflict]
      appended == Append(timeline, entry)
  IN IF Len(appended) > maxTimeline
     THEN SubSeq(appended, Len(appended) - maxTimeline + 1, Len(appended))
     ELSE appended

\* Array.prototype.slice(-count): the last count elements, all of them when there are fewer
sliceLast(list, count) ==
  IF count >= Len(list) THEN list ELSE SubSeq(list, Len(list) - count + 1, Len(list))

\* Array.prototype.reverse
reverse(list) == [i \in 1..Len(list) |-> list[Len(list) - i + 1]]

\* OperationLogManager.getRoomTimeline(roomId, limit) on the room's timeline
getRoomTimeline(timeline, limit) ==
  IF limit <= 0 THEN <<>> ELSE reverse(sliceLast(timeline, limit))

\* variant: a mutation at the command's own timestamp counts as later
detectConflictNotStrict(command, userId, objects) ==
  IF command.objectId = NoObj THEN <<>>
  ELSE LET current == getObject(objects, command.objectId)
       IN IF current = <<>> THEN <<>>
          ELSE IF /\ current[1]._lastModifiedBy # NoUser
                  /\ current[1]._lastModifiedBy # userId
                  /\ current[1]._updatedAt >= command.timestamp
               THEN <<[objectId |-> command.objectId,
                       lastModifiedBy |-> current[1]._lastModifiedBy,
                       updatedAt |-> current[1]._updatedAt,
                       strategy |-> "last-write-wins"]>>
               ELSE <<>>

\* OperationLogManager.detectConflict: <<>> or <<conflict>>
detectConflict(command, userId, objects) ==
  IF command.objectId = NoObj THEN <<>>
  ELSE LET current == getObject(objects, command.objectId)
       IN IF current = <<>> THEN <<>>
          ELSE IF /\ current[1]._lastModifiedBy # NoUser
                  /\ current[1]._lastModifiedBy # userId
                  /\ current[1]._updatedAt > command.timestamp
               THEN <<[objectId |-> command.objectId,
                       lastModifiedBy |-> current[1]._lastModifiedBy,
                       updatedAt |-> current[1]._updatedAt,
                       strategy |-> "last-write-wins"]>>
               ELSE <<>>

\* variant: undoing an update applies the after patch
commandUndoAppliesAfter(command, objects, t) ==
  CASE command.type = CREATE_OBJECT ->
         IF command.objectId = NoObj THEN objects
         ELSE removeObject(objects, command.objectId)
    [] command.type = DELETE_OBJECT ->
         IF command.before = <<>> THEN objects
         ELSE upsertObject(objects, command.before[1], command.userId, t)
    [] command.type = UPDATE_OBJECT ->
         IF command.objectId = NoObj \/ command.before = <<>> THEN objects
         ELSE updateObject(objects, command.objectId, command.after, command.userId, t)
    [] command.type = CLEAR_OBJECTS ->
         restoreObjects(objects, command.before, command.userId, t)

\* command.undo(context) for the four command classes
commandUndo(command, objects, t) ==
  CASE command.type = CREATE_OBJECT ->
         IF command.objectId = NoObj THEN objects
         ELSE removeObject(objects, command.objectId)
    [] command.type = DELETE_OBJECT ->
         IF command.before = <<>> THEN objects
         ELSE upsertObject(objects, command.before[1], command.userId, t)
    [] command.type = UPDATE_OBJECT ->
         IF command.objectId = NoObj \/ command.before = <<>> THEN objects
         ELSE updateObject(objects, command.objectId, command.before, command.userId, t)
    [] command.type = CLEAR_OBJECTS ->
         restoreObjects(objects, command.before, command.userId, t)

\* command.execute(context) for the four command classes
commandExecute(command, objects, t) ==
  CASE command.type = CREATE_OBJECT ->
         IF command.after = <<>> THEN objects
         ELSE upsertObject(objects, command.after[1], command.userId, t)
    [] command.type = DELETE_OBJECT ->
         IF command.objectId = NoObj THEN objects
         ELSE removeObject(objects, command.objectId)
    [] command.type = UPDATE_OBJECT ->
         IF command.objectId = NoObj \/ command.after = <<>> THEN objects
         ELSE updateObject(objects, command.objectId, command.after, command.userId, t)
    [] command.type = CLEAR_OBJECTS -> <<>>

\* ============================================== history-variable helpers

\* position of object id in the room (Absent when the room has no such object)
Content(objects, id) ==
  IF findIndex(objects, id) = 0 THEN Absent ELSE objects[findIndex(objects, id)].position

NoRun == [user |-> NoUser, obj |-> NoObj, pres |-> <<>>, k |-> 0]

\* user u performed an accepted operation on object id; pre is the object's content
\* before it, own says that the operation became an undo-stack entry of its own with a
\* server-derived inverse
RunOp(u, id, pre, own) ==
  IF run.user = u /\ run.obj = id /\ run.k = 0
  THEN [run EXCEPT !.pres = Append(@, [pre |-> pre, own |-> own])]
  ELSE [user |-> u, obj |-> id, pres |-> <<[pre |-> pre, own |-> own]>>, k |-> 0]

\* user u sent operation:undo
RunUndo(u) ==
  IF run.user = u /\ run.k < Len(run.pres) THEN [run EXCEPT !.k = @ + 1] ELSE NoRun

\* ids of the objects that command.undo / command.execute writes with an actor
MutatedBy(command, mode, objects) ==
  CASE command.type = CREATE_OBJECT ->
         IF mode = "undo" \/ command.after = <<>> THEN {} ELSE {command.objectId}
    [] command.type = DELETE_OBJECT ->
         IF mode = "undo" /\ command.before # <<>> THEN {command.objectId} ELSE {}
    [] command.type = UPDATE_OBJECT ->
         IF findIndex(objects, command.objectId) = 0 THEN {} ELSE {command.objectId}
    [] command.type = CLEAR_OBJECTS ->
         IF mode = "undo" THEN {command.before[i].id : i \in 1..Len(command.before)} ELSE {}

Mutate(ids, u) ==
  /\ lastMutAt' = [o \in DOMAIN lastMutAt |->
                     IF o \in ids THEN [lastMutAt[o] EXCEPT ![u] = now] ELSE lastMutAt[o]]
  /\ lastMutator' = [o \in DOMAIN lastMutator |-> IF o \in ids THEN u ELSE lastMutator[o]]

\* some user other than u mutated object id strictly later than time t
ForeignMutationAfter(id, u, t) ==
  \E v \in UserIds \ {u} : lastMutAt[id][v] > t

\* the object exists and its most recent mutation is by another user, strictly later than t
LatestMutationForeignAfter(objects, id, u, t) ==
  /\ findIndex(objects, id) > 0
  /\ lastMutator[id] \notin {NoUser, u}
  /\ lastMutAt[id][lastMutator[id]] > t

\* ================================================================ server.js

\* getCurrentRoomId(socket) of user u's session is r, and r is in memory
InRoom(r, u) == currentRoom[u] = r /\ rooms[r] # <<>>

\* a session of user u whose current room is r sends an object or operation intent
CanAct(r, u) == events < MaxEvents /\ InRoom(r, u)

\* getUserRole(room, userId): "host" or "member"
getUserRole(room, userId) ==
  IF room = <<>> \/ userId = NoUser THEN "member"
  ELSE IF room[1].ownerId # NoUser /\ room[1].ownerId = userId THEN "host" ELSE "member"

\* the whiteboards of a room, <<>> when the room is null
whiteboardsOf(room) == IF room = <<>> THEN <<>> ELSE room[1].whiteboards

\* the persistRoom call that ends every RoomManager mutation of room r
Persist(r) == redis' = persistRoom(redis, rooms'[r][1])

\* variant: a recorded command empties the redo stack of every user of the room
RecordClearsEveryRedo(r, u, command) ==
  LET stack == userStack(r, u)
      after == record(stack, command)
  IN /\ stacksByRoom' = [stacksByRoom EXCEPT
                           ![r] = [v \in UserIds |->
                                     IF v = u THEN <<after>>
                                     ELSE IF @[v] = <<>> THEN <<>>
                                     ELSE <<[@[v][1] EXCEPT !.redo = <<>>]>>]]
     /\ timelineByRoom' = [timelineByRoom EXCEPT
                             ![r] = appendTimeline(@, command, "execute", <<>>)]
     /\ cmdSeq' = cmdSeq + 1
     /\ recorded' = [recorded EXCEPT ![r][u] = @ + 1]
     /\ result' = [kind |-> "record", userId |-> u, roomId |-> r,
                   command |-> command,
                   prevUndo |-> stack.undo, prevRedo |-> stack.redo,
                   stacks |-> stacksByRoom[r],
                   merged |-> mergesIntoLast(stack.undo, command)]

\* operationLogs.record(roomId, socket.userId, command) and its history bookkeeping
Record(r, u, command) ==
  LET stack == userStack(r, u)
      after == record(stack, command)
  IN /\ stacksByRoom' = [stacksByRoom EXCEPT ![r][u] = <<after>>]
     /\ timelineByRoom' = [timelineByRoom EXCEPT
                             ![r] = appendTimeline(@, command, "execute", <<>>)]
     /\ cmdSeq' = cmdSeq + 1
     /\ recorded' = [recorded EXCEPT ![r][u] = @ + 1]
     /\ result' = [kind |-> "record", userId |-> u, roomId |-> r,
                   command |-> command,
                   prevUndo |-> stack.undo, prevRedo |-> stack.redo,
                   stacks |-> stacksByRoom[r],
                   merged |-> mergesIntoLast(stack.undo, command)]

\* socket.on("object-create")
ObjectCreate(r, u, id, position) ==
  /\ CanAct(r, u)
  /\ LET objects == rooms[r][1].objects
         stored == upsertObject(objects, Payload(id, position), u, now)
         createdObject == getObject(stored, id)
         command == createCommand(cmdSeq + 1, CREATE_OBJECT, u, id, <<>>, createdObject,
                                  NoKey, now)
     IN /\ rooms' = [rooms EXCEPT ![r][1].objects = stored]
        /\ Record(r, u, command)
        /\ run' = RunOp(u, id, Content(objects, id), findIndex(objects, id) = 0)
        /\ Mutate({id}, u)
  /\ events' = events + 1
  /\ Persist(r)
  /\ UNCHANGED <<now, currentRoom, whiteboardLocksByRoom, drawSeq,
                 inflight, emitted, bridge>>

\* socket.on("object-delete")
ObjectDelete(r, u, id) ==
  /\ CanAct(r, u)
  /\ LET objects == rooms[r][1].objects
         previousObject == getObject(objects, id)
         command == createCommand(cmdSeq + 1, DELETE_OBJECT, u, id, previousObject, <<>>,
                                  NoKey, now)
     IN /\ previousObject # <<>>
        /\ rooms' = [rooms EXCEPT ![r][1].objects = removeObject(objects, id)]
        /\ Record(r, u, command)
        /\ run' = RunOp(u, id, Content(objects, id), TRUE)
  /\ events' = events + 1
  /\ Persist(r)
  /\ UNCHANGED <<now, lastMutAt, lastMutator, currentRoom, whiteboardLocksByRoom, drawSeq,
                 inflight, emitted, bridge>>

\* socket.on("object-delete-all")
ObjectDeleteAll(r, u) ==
  /\ events < MaxEvents
  /\ currentRoom[u] = r
  /\ LET got == getRoom(rooms, redis, r)
         removedObjects == IF got.room = <<>> THEN <<>> ELSE got.room[1].objects
         command == createCommand(cmdSeq + 1, CLEAR_OBJECTS, u, NoObj, removedObjects, <<>>,
                                  NoKey, now)
     IN /\ rooms' = IF got.room = <<>> THEN got.rooms
                    ELSE [got.rooms EXCEPT ![r][1].objects = <<>>]
        /\ IF got.room = <<>> THEN redis' = redis ELSE Persist(r)
        /\ Record(r, u, command)
  /\ run' = NoRun
  /\ events' = events + 1
  /\ UNCHANGED <<now, lastMutAt, lastMutator, currentRoom, whiteboardLocksByRoom, drawSeq,
                 inflight, emitted, bridge>>

\* socket.on("object-move")
ObjectMove(r, u, id, position, transient) ==
  /\ CanAct(r, u)
  /\ LET objects == rooms[r][1].objects
         previousObject == getObject(objects, id)
         stored == updateObject(objects, id, <<[position |-> position]>>, u, now)
         updatedObject == getObject(stored, id)
         command == createCommand(cmdSeq + 1, UPDATE_OBJECT, u, id,
                                  <<[position |-> previousObject[1].position]>>,
                                  <<[position |-> updatedObject[1].position]>>,
                                  "transform", now)
         merges == mergesIntoLast(userStack(r, u).undo, command)
     IN /\ previousObject # <<>>
        /\ rooms' = [rooms EXCEPT ![r][1].objects = stored]
        /\ IF transient
           THEN /\ result' = [kind |-> "move-transient", userId |-> u, roomId |-> r]
                /\ UNCHANGED <<stacksByRoom, timelineByRoom, cmdSeq, recorded>>
           ELSE Record(r, u, command)
        /\ run' = RunOp(u, id, Content(objects, id), ~transient /\ ~merges)
        /\ Mutate({id}, u)
  /\ events' = events + 1
  /\ Persist(r)
  /\ UNCHANGED <<now, currentRoom, whiteboardLocksByRoom, drawSeq,
                 inflight, emitted, bridge>>

\* handleObjectUpdate: socket.on("object-update") / socket.on("object-transform").
\* The patch has the key position; clientBefore is data.before (NoPos: not sent).
ObjectUpdate(r, u, id, position, mergeKey, clientBefore) ==
  /\ CanAct(r, u)
  /\ LET objects == rooms[r][1].objects
         previousObject == getObject(objects, id)
         stored == updateObject(objects, id, <<[position |-> position]>>, u, now)
         updatedObject == getObject(stored, id)
         beforePatch == IF clientBefore # NoPos
                        THEN <<[position |-> clientBefore]>>
                        ELSE <<[position |-> previousObject[1].position]>>
         afterPatch == <<[position |-> updatedObject[1].position]>>
         command == createCommand(cmdSeq + 1, UPDATE_OBJECT, u, id, beforePatch, afterPatch,
                                  mergeKey, now)
         merges == mergesIntoLast(userStack(r, u).undo, command)
     IN /\ previousObject # <<>>
        /\ rooms' = [rooms EXCEPT ![r][1].objects = stored]
        /\ Record(r, u, command)
        /\ run' = RunOp(u, id, Content(objects, id),
                        ~merges /\ beforePatch[1].position = previousObject[1].position)
        /\ Mutate({id}, u)
  /\ events' = events + 1
  /\ Persist(r)
  /\ UNCHANGED <<now, currentRoom, whiteboardLocksByRoom, drawSeq,
                 inflight, emitted, bridge>>

\* broadcastCommandEffect(roomId, command, mode): the events emitted to the room, in
\* order; a patch of the model always holds a position
broadcastCommandEffect(command, mode) ==
  LET direction == IF mode = "undo" THEN "undo" ELSE "execute"
      updates == IF direction = "undo" THEN command.before ELSE command.after
  IN CASE command.type = CREATE_OBJECT ->
            IF direction = "undo" THEN <<"object-deleted">> ELSE <<"object-created">>
       [] command.type = DELETE_OBJECT ->
            IF direction = "undo" THEN <<"object-created">> ELSE <<"object-deleted">>
       [] command.type = UPDATE_OBJECT ->
            IF updates = <<>> THEN <<>> ELSE <<"object-updated", "object-moved">>
       [] command.type = CLEAR_OBJECTS ->
            IF direction = "undo" THEN <<"objects-restored">> ELSE <<"object-deleted-all">>

\* variant: an undo on an empty undo stack empties the redo stack
OperationUndoDropsRedo(r, u) ==
  /\ CanAct(r, u)
  /\ LET stack == userStack(r, u)
         objects == rooms[r][1].objects
     IN IF stack.undo = <<>>
        THEN /\ stacksByRoom' = [stacksByRoom EXCEPT
                                    ![r][u] = <<[stack EXCEPT !.redo = <<>>]>>]
             /\ result' = [kind |-> "undo", ok |-> FALSE, userId |-> u, roomId |-> r,
                           reason |-> "EMPTY_UNDO", objects |-> objects, stack |-> stack,
                           timeline |-> timelineByRoom[r], broadcast |-> <<>>]
             /\ UNCHANGED <<rooms, timelineByRoom, lastMutAt, lastMutator, redis>>
        ELSE LET command == stack.undo[Len(stack.undo)]
                 conflict == detectConflict(command, u, objects)
             IN /\ rooms' = [rooms EXCEPT ![r][1].objects = commandUndo(command, objects, now)]
                /\ stacksByRoom' = [stacksByRoom EXCEPT ![r][u] = <<undoStacks(stack)>>]
                /\ timelineByRoom' = [timelineByRoom EXCEPT
                                        ![r] = appendTimeline(@, command, "undo", conflict)]
                /\ Mutate(MutatedBy(command, "undo", objects), u)
                /\ Persist(r)
                /\ result' = [kind |-> "undo", ok |-> TRUE, userId |-> u, roomId |-> r,
                              command |-> command, conflict |-> conflict,
                              objects |-> objects, stack |-> stack,
                              timeline |-> timelineByRoom[r],
                              broadcast |-> broadcastCommandEffect(command, "undo"),
                              at |-> now,
                              latestBy |-> IF command.objectId = NoObj THEN NoUser
                                           ELSE lastMutator[command.objectId],
                              foreignAfter |->
                                /\ command.objectId # NoObj
                                /\ ForeignMutationAfter(command.objectId, u, command.timestamp),
                              latestForeign |->
                                /\ command.objectId # NoObj
                                /\ LatestMutationForeignAfter(objects, command.objectId, u,
                                                              command.timestamp)]
  /\ run' = RunUndo(u)
  /\ events' = events + 1
  /\ UNCHANGED <<now, cmdSeq, recorded, currentRoom, whiteboardLocksByRoom, drawSeq,
                 inflight, emitted, bridge>>

\* variant: an undo that detects a conflict does not apply command.undo
OperationUndoBlockedByConflict(r, u) ==
  /\ CanAct(r, u)
  /\ LET stack == userStack(r, u)
         objects == rooms[r][1].objects
     IN IF stack.undo = <<>>
        THEN /\ stacksByRoom' = [stacksByRoom EXCEPT ![r][u] = <<stack>>]
             /\ result' = [kind |-> "undo", ok |-> FALSE, userId |-> u, roomId |-> r,
                           reason |-> "EMPTY_UNDO", objects |-> objects, stack |-> stack,
                           timeline |-> timelineByRoom[r], broadcast |-> <<>>]
             /\ UNCHANGED <<rooms, timelineByRoom, lastMutAt, lastMutator, redis>>
        ELSE LET command == stack.undo[Len(stack.undo)]
                 conflict == detectConflict(command, u, objects)
             IN /\ rooms' = [rooms EXCEPT ![r][1].objects =
                                      IF conflict # <<>> THEN objects
                                      ELSE commandUndo(command, objects, now)]
                /\ stacksByRoom' = [stacksByRoom EXCEPT ![r][u] = <<undoStacks(stack)>>]
                /\ timelineByRoom' = [timelineByRoom EXCEPT
                                        ![r] = appendTimeline(@, command, "undo", conflict)]
                /\ Mutate(MutatedBy(command, "undo", objects), u)
                /\ Persist(r)
                /\ result' = [kind |-> "undo", ok |-> TRUE, userId |-> u, roomId |-> r,
                              command |-> command, conflict |-> conflict,
                              objects |-> objects, stack |-> stack,
                              timeline |-> timelineByRoom[r],
                              broadcast |-> broadcastCommandEffect(command, "undo"),
                              at |-> now,
                              latestBy |-> IF command.objectId = NoObj THEN NoUser
                                           ELSE lastMutator[command.objectId],
                              foreignAfter |->
                                /\ command.objectId # NoObj
                                /\ ForeignMutationAfter(command.objectId, u, command.timestamp),
                              latestForeign |->
                                /\ command.objectId # NoObj
                                /\ LatestMutationForeignAfter(objects, command.objectId, u,
                                                              command.timestamp)]
  /\ run' = RunUndo(u)
  /\ events' = events + 1
  /\ UNCHANGED <<now, cmdSeq, recorded, currentRoom, whiteboardLocksByRoom, drawSeq,
                 inflight, emitted, bridge>>

\* socket.on("operation:undo") with OperationLogManager.undo
OperationUndo(r, u) ==
  /\ CanAct(r, u)
  /\ LET stack == userStack(r, u)
         objects == rooms[r][1].objects
     IN IF stack.undo = <<>>
        THEN /\ stacksByRoom' = [stacksByRoom EXCEPT ![r][u] = <<stack>>]
             /\ result' = [kind |-> "undo", ok |-> FALSE, userId |-> u, roomId |-> r,
                           reason |-> "EMPTY_UNDO", objects |-> objects, stack |-> stack,
                           timeline |-> timelineByRoom[r], broadcast |-> <<>>]
             /\ UNCHANGED <<rooms, timelineByRoom, lastMutAt, lastMutator, redis>>
        ELSE LET command == stack.undo[Len(stack.undo)]
                 conflict == detectConflict(command, u, objects)
             IN /\ rooms' = [rooms EXCEPT ![r][1].objects = commandUndo(command, objects, now)]
                /\ stacksByRoom' = [stacksByRoom EXCEPT ![r][u] = <<undoStacks(stack)>>]
                /\ timelineByRoom' = [timelineByRoom EXCEPT
                                        ![r] = appendTimeline(@, command, "undo", conflict)]
                /\ Mutate(MutatedBy(command, "undo", objects), u)
                /\ Persist(r)
                /\ result' = [kind |-> "undo", ok |-> TRUE, userId |-> u, roomId |-> r,
                              command |-> command, conflict |-> conflict,
                              objects |-> objects, stack |-> stack,
                              timeline |-> timelineByRoom[r],
                              broadcast |-> broadcastCommandEffect(command, "undo"),
                              at |-> now,
                              latestBy |-> IF command.objectId = NoObj THEN NoUser
                                           ELSE lastMutator[command.objectId],
                              foreignAfter |->
                                /\ command.objectId # NoObj
                                /\ ForeignMutationAfter(command.objectId, u, command.timestamp),
                              latestForeign |->
                                /\ command.objectId # NoObj
                                /\ LatestMutationForeignAfter(objects, command.objectId, u,
                                                              command.timestamp)]
  /\ run' = RunUndo(u)
  /\ events' = events + 1
  /\ UNCHANGED <<now, cmdSeq, recorded, currentRoom, whiteboardLocksByRoom, drawSeq,
                 inflight, emitted, bridge>>

\* socket.on("operation:redo") with OperationLogManager.redo
OperationRedo(r, u) ==
  /\ CanAct(r, u)
  /\ LET stack == userStack(r, u)
         objects == rooms[r][1].objects
     IN IF stack.redo = <<>>
        THEN /\ stacksByRoom' = [stacksByRoom EXCEPT ![r][u] = <<stack>>]
             /\ result' = [kind |-> "redo", ok |-> FALSE, userId |-> u, roomId |-> r,
                           reason |-> "EMPTY_REDO", objects |-> objects, stack |-> stack,
                           timeline |-> timelineByRoom[r], broadcast |-> <<>>]
             /\ UNCHANGED <<rooms, timelineByRoom, lastMutAt, lastMutator, redis>>
        ELSE LET command == stack.redo[Len(stack.redo)]
                 conflict == detectConflict(command, u, objects)
             IN /\ rooms' = [rooms EXCEPT ![r][1].objects = commandExecute(command, objects, now)]
                /\ stacksByRoom' = [stacksByRoom EXCEPT ![r][u] = <<redoStacks(stack)>>]
                /\ timelineByRoom' = [timelineByRoom EXCEPT
                                        ![r] = appendTimeline(@, command, "redo", conflict)]
                /\ Mutate(MutatedBy(command, "redo", objects), u)
                /\ Persist(r)
                /\ result' = [kind |-> "redo", ok |-> TRUE, userId |-> u, roomId |-> r,
                              command |-> command, conflict |-> conflict,
                              objects |-> objects, stack |-> stack,
                              timeline |-> timelineByRoom[r],
                              broadcast |-> broadcastCommandEffect(command, "execute"),
                              at |-> now,
                              latestBy |-> IF command.objectId = NoObj THEN NoUser
                                           ELSE lastMutator[command.objectId],
                              foreignAfter |->
                                /\ command.objectId # NoObj
                                /\ ForeignMutationAfter(command.objectId, u, command.timestamp),
                              latestForeign |->
                                /\ command.objectId # NoObj
                                /\ LatestMutationForeignAfter(objects, command.objectId, u,
                                                              command.timestamp)]
  /\ run' = NoRun
  /\ events' = events + 1
  /\ UNCHANGED <<now, cmdSeq, recorded, currentRoom, whiteboardLocksByRoom, drawSeq,
                 inflight, emitted, bridge>>

\* ---- whiteboard locks

\* variant: a stored lock never expires
getActiveWhiteboardLockNeverExpires(locks, whiteboardId, t) ==
  [locks |-> locks, lock |-> locks[whiteboardId]]

\* getActiveWhiteboardLock on the lock map of one room: the lock map after the call
\* (an expired lock is deleted) and the active lock, <<>> or <<lock>>
getActiveWhiteboardLock(locks, whiteboardId, t) ==
  LET lock == locks[whiteboardId]
  IN IF lock = <<>>
     THEN [locks |-> locks, lock |-> <<>>]
     ELSE IF lock[1].expiresAt <= t
     THEN [locks |-> [locks EXCEPT ![whiteboardId] = <<>>], lock |-> <<>>]
     ELSE [locks |-> locks, lock |-> lock]

\* Math.max(500, Number(ttlMs) || WHITEBOARD_LOCK_TTL_MS)
lockDuration(ttlMs) ==
  LET requested == IF ttlMs = 0 THEN WHITEBOARD_LOCK_TTL_MS ELSE ttlMs
  IN IF requested < 500 THEN 500 ELSE requested

\* variant: the request is granted whoever holds the lock
lockWhiteboardIgnoresHolder(locks, whiteboardId, userId, ttlMs, t) ==
  LET active == getActiveWhiteboardLock(locks, whiteboardId, t)
      lock == [whiteboardId |-> whiteboardId, userId |-> userId, acquiredAt |-> t,
               expiresAt |-> t + lockDuration(ttlMs)]
  IN [ok |-> TRUE, reason |-> "", lock |-> <<lock>>,
      locks |-> [active.locks EXCEPT ![whiteboardId] = <<lock>>]]

\* lockWhiteboard(roomId, whiteboardId, userId, username, ttlMs) on the room's lock map
lockWhiteboard(locks, whiteboardId, userId, ttlMs, t) ==
  LET active == getActiveWhiteboardLock(locks, whiteboardId, t)
      current == active.lock
      lock == [whiteboardId |-> whiteboardId, userId |-> userId, acquiredAt |-> t,
               expiresAt |-> t + lockDuration(ttlMs)]
  IN IF current # <<>> /\ current[1].userId # userId
     THEN [ok |-> FALSE, reason |-> "locked", lock |-> current, locks |-> active.locks]
     ELSE [ok |-> TRUE, reason |-> "", lock |-> <<lock>>,
           locks |-> [active.locks EXCEPT ![whiteboardId] = <<lock>>]]

\* unlockWhiteboard(roomId, whiteboardId, userId, force)
unlockWhiteboard(locks, whiteboardId, userId, force) ==
  LET active == getActiveWhiteboardLock(locks, whiteboardId, now)
      current == active.lock
  IN IF current = <<>>
     THEN [ok |-> TRUE, released |-> FALSE, reason |-> "", locks |-> active.locks]
     ELSE IF ~force /\ current[1].userId # userId
     THEN [ok |-> FALSE, released |-> FALSE, reason |-> "not-owner", locks |-> active.locks]
     ELSE [ok |-> TRUE, released |-> TRUE, reason |-> "",
           locks |-> [active.locks EXCEPT ![whiteboardId] = <<>>]]

\* releaseUserWhiteboardLocks(roomId, userId) on the room's lock map
releaseUserWhiteboardLocks(locks, userId) ==
  [w \in DOMAIN locks |->
     IF locks[w] # <<>> /\ locks[w][1].userId = userId THEN <<>> ELSE locks[w]]

\* socket.on("whiteboard:lock")
WhiteboardLock(r, u, w, ttlMs) ==
  /\ currentRoom[u] = r
  /\ LET got == getRoom(rooms, redis, r)
         res == lockWhiteboard(whiteboardLocksByRoom[r], w, u, ttlMs, now)
         stored == whiteboardLocksByRoom[r][w]
     IN /\ rooms' = got.rooms
        /\ IF got.room = <<>>
           THEN /\ result' = [kind |-> "lock", userId |-> u, roomId |-> r,
                              whiteboardId |-> w, at |-> now, stored |-> stored,
                              ok |-> FALSE, reason |-> "room-not-found",
                              lock |-> <<>>, holder |-> stored, ttlMs |-> ttlMs]
                /\ UNCHANGED whiteboardLocksByRoom
           ELSE /\ whiteboardLocksByRoom' = [whiteboardLocksByRoom EXCEPT ![r] = res.locks]
                /\ result' = [kind |-> "lock", userId |-> u, roomId |-> r,
                              whiteboardId |-> w, at |-> now, stored |-> stored,
                              ok |-> res.ok, reason |-> res.reason,
                              lock |-> res.lock, holder |-> res.locks[w],
                              ttlMs |-> ttlMs]
  /\ UNCHANGED <<now, stacksByRoom, timelineByRoom, cmdSeq, events, recorded, run,
                 lastMutAt, lastMutator, redis, currentRoom, drawSeq,
                 inflight, emitted, bridge>>

\* socket.on("whiteboard:unlock")
WhiteboardUnlock(r, u, w, force) ==
  /\ currentRoom[u] = r
  /\ LET res == unlockWhiteboard(whiteboardLocksByRoom[r], w, u, force)
     IN /\ whiteboardLocksByRoom' = [whiteboardLocksByRoom EXCEPT ![r] = res.locks]
        /\ result' = [kind |-> "unlock", userId |-> u, roomId |-> r, whiteboardId |-> w,
                      at |-> now, stored |-> whiteboardLocksByRoom[r][w],
                      ok |-> res.ok, released |-> res.released, reason |-> res.reason]
  /\ UNCHANGED <<now, rooms, stacksByRoom, timelineByRoom, cmdSeq, events, recorded, run,
                 lastMutAt, lastMutator, redis, currentRoom, drawSeq,
                 inflight, emitted, bridge>>

\* whiteboard:draw refuses every user with its own lock
drawDeniedByOwnLock(activeLock, userId) ==
  activeLock # <<>> /\ activeLock[1].userId = userId

\* whiteboard:draw refuses a user while another user's lock is active
drawDeniedByLock(activeLock, userId) ==
  activeLock # <<>> /\ activeLock[1].userId # userId

\* socket.on("whiteboard:draw"); the action's id is the number of the intent
WhiteboardDraw(r, u, w, type) ==
  /\ currentRoom[u] = r
  /\ drawSeq < MaxDraws
  /\ LET active == getActiveWhiteboardLock(whiteboardLocksByRoom[r], w, now)
         got == getRoom(rooms, redis, r)
         normalizedAction == [id |-> drawSeq + 1, type |-> type, userId |-> u,
                              timestamp |-> now]
         denied == drawDeniedByLock(active.lock, u)
         found == /\ got.room # <<>>
                  /\ whiteboardIndex(got.room[1].whiteboards, w) # 0
         previous == IF found
                     THEN got.room[1].whiteboards[
                            whiteboardIndex(got.room[1].whiteboards, w)].history
                     ELSE <<>>
         updated == [got.room[1] EXCEPT
                       !.whiteboards = appendWhiteboardAction(@, w, normalizedAction, u, now)]
     IN /\ whiteboardLocksByRoom' = [whiteboardLocksByRoom EXCEPT ![r] = active.locks]
        /\ IF denied
           THEN UNCHANGED <<rooms, redis>>
           ELSE IF ~found
           THEN rooms' = got.rooms /\ UNCHANGED redis
           ELSE /\ rooms' = [got.rooms EXCEPT ![r] = <<updated>>]
                /\ redis' = persistRoom(redis, updated)
        /\ result' = [kind |-> "draw", userId |-> u, roomId |-> r, whiteboardId |-> w,
                      appended |-> ~denied /\ found, denied |-> denied,
                      broadcast |-> ~denied /\ found,
                      action |-> normalizedAction, previous |-> previous,
                      before |-> whiteboardsOf(got.room),
                      stored |-> whiteboardLocksByRoom[r][w], at |-> now]
  /\ drawSeq' = drawSeq + 1
  /\ UNCHANGED <<now, stacksByRoom, timelineByRoom, cmdSeq, events, recorded, run,
                 lastMutAt, lastMutator, currentRoom, inflight, emitted, bridge>>

\* ---- host-only whiteboard operations, whiteboard undo and redo

\* what a whiteboard handler did: the acting user's role and the room's whiteboards
\* before the call
WhiteboardResult(action, r, u, w, room) ==
  [kind |-> "whiteboard", action |-> action, userId |-> u, roomId |-> r,
   whiteboardId |-> w, role |-> getUserRole(room, u), before |-> whiteboardsOf(room),
   at |-> now]

\* a whiteboard handler that passed requireHostRole and found what it needs stores the
\* room's new whiteboards; otherwise the room is as getRoom left it
StoreWhiteboards(r, got, allowed, whiteboards) ==
  IF allowed
  THEN /\ rooms' = [got.rooms EXCEPT ![r] = <<[got.room[1] EXCEPT !.whiteboards = whiteboards]>>]
       /\ Persist(r)
  ELSE /\ rooms' = got.rooms
       /\ UNCHANGED redis

\* socket.on("whiteboard:create") with requireHostRole; data is the payload
WhiteboardCreateData(r, u, data) ==
  /\ events < MaxEvents
  /\ currentRoom[u] = r
  /\ LET got == getRoom(rooms, redis, r)
         allowed == getUserRole(got.room, u) = "host"
     IN /\ StoreWhiteboards(r, got, allowed,
                            upsertWhiteboard(whiteboardsOf(got.room), data, u, now))
        /\ result' = WhiteboardResult("create", r, u, data.id, got.room)
  /\ events' = events + 1
  /\ UNCHANGED <<now, stacksByRoom, timelineByRoom, cmdSeq, recorded, run, lastMutAt,
                 lastMutator, currentRoom, whiteboardLocksByRoom, drawSeq,
                 inflight, emitted, bridge>>

\* whiteboard:create with a payload of id and position
WhiteboardCreate(r, u, w, position) ==
  WhiteboardCreateData(r, u, [id |-> w, position |-> position])

\* socket.on("whiteboard:delete") with requireHostRole
WhiteboardDelete(r, u, w) ==
  /\ events < MaxEvents
  /\ currentRoom[u] = r
  /\ LET got == getRoom(rooms, redis, r)
         allowed == /\ getUserRole(got.room, u) = "host"
                    /\ whiteboardIndex(whiteboardsOf(got.room), w) # 0
     IN /\ StoreWhiteboards(r, got, allowed, removeWhiteboard(whiteboardsOf(got.room), w))
        /\ whiteboardLocksByRoom' =
             IF allowed
             THEN [whiteboardLocksByRoom EXCEPT
                     ![r] = unlockWhiteboard(@, w, u, TRUE).locks]
             ELSE whiteboardLocksByRoom
        /\ result' = WhiteboardResult("delete", r, u, w, got.room)
  /\ events' = events + 1
  /\ UNCHANGED <<now, stacksByRoom, timelineByRoom, cmdSeq, recorded, run, lastMutAt,
                 lastMutator, currentRoom, drawSeq,
                 inflight, emitted, bridge>>

\* socket.on("whiteboard:transform") with requireHostRole
WhiteboardTransform(r, u, w, position) ==
  /\ events < MaxEvents
  /\ currentRoom[u] = r
  /\ LET got == getRoom(rooms, redis, r)
         allowed == /\ getUserRole(got.room, u) = "host"
                    /\ whiteboardIndex(whiteboardsOf(got.room), w) # 0
     IN /\ StoreWhiteboards(r, got, allowed,
                            upsertWhiteboard(whiteboardsOf(got.room),
                                             [id |-> w, position |-> position], u, now))
        /\ result' = WhiteboardResult("transform", r, u, w, got.room)
  /\ events' = events + 1
  /\ UNCHANGED <<now, stacksByRoom, timelineByRoom, cmdSeq, recorded, run, lastMutAt,
                 lastMutator, currentRoom, whiteboardLocksByRoom, drawSeq,
                 inflight, emitted, bridge>>

\* socket.on("whiteboard:clear") with requireHostRole
WhiteboardClear(r, u, w) ==
  /\ events < MaxEvents
  /\ currentRoom[u] = r
  /\ LET got == getRoom(rooms, redis, r)
         allowed == /\ getUserRole(got.room, u) = "host"
                    /\ whiteboardIndex(whiteboardsOf(got.room), w) # 0
         action == [type |-> "CLEAR", userId |-> u, timestamp |-> now]
     IN /\ StoreWhiteboards(r, got, allowed,
                            appendWhiteboardAction(whiteboardsOf(got.room), w, action, u, now))
        /\ result' = WhiteboardResult("clear", r, u, w, got.room)
  /\ events' = events + 1
  /\ UNCHANGED <<now, stacksByRoom, timelineByRoom, cmdSeq, recorded, run, lastMutAt,
                 lastMutator, currentRoom, whiteboardLocksByRoom, drawSeq,
                 inflight, emitted, bridge>>

\* socket.on("whiteboard:undo")
WhiteboardUndo(r, u, w) ==
  /\ events < MaxEvents
  /\ currentRoom[u] = r
  /\ LET active == getActiveWhiteboardLock(whiteboardLocksByRoom[r], w, now)
         got == getRoom(rooms, redis, r)
         denied == drawDeniedByLock(active.lock, u)
         allowed == ~denied /\ whiteboardIndex(whiteboardsOf(got.room), w) # 0
     IN /\ whiteboardLocksByRoom' = [whiteboardLocksByRoom EXCEPT ![r] = active.locks]
        /\ IF denied
           THEN UNCHANGED <<rooms, redis>>
           ELSE StoreWhiteboards(r, got, allowed,
                                 undoWhiteboardAction(whiteboardsOf(got.room), w, u, now))
        /\ result' = WhiteboardResult("undo", r, u, w, got.room)
  /\ events' = events + 1
  /\ UNCHANGED <<now, stacksByRoom, timelineByRoom, cmdSeq, recorded, run, lastMutAt,
                 lastMutator, currentRoom, drawSeq,
                 inflight, emitted, bridge>>

\* socket.on("whiteboard:redo")
WhiteboardRedo(r, u, w) ==
  /\ events < MaxEvents
  /\ currentRoom[u] = r
  /\ LET active == getActiveWhiteboardLock(whiteboardLocksByRoom[r], w, now)
         got == getRoom(rooms, redis, r)
         denied == drawDeniedByLock(active.lock, u)
         allowed == ~denied /\ whiteboardIndex(whiteboardsOf(got.room), w) # 0
     IN /\ whiteboardLocksByRoom' = [whiteboardLocksByRoom EXCEPT ![r] = active.locks]
        /\ IF denied
           THEN UNCHANGED <<rooms, redis>>
           ELSE StoreWhiteboards(r, got, allowed,
                                 redoWhiteboardAction(whiteboardsOf(got.room), w, u, now))
        /\ result' = WhiteboardResult("redo", r, u, w, got.room)
  /\ events' = events + 1
  /\ UNCHANGED <<now, stacksByRoom, timelineByRoom, cmdSeq, recorded, run, lastMutAt,
                 lastMutator, currentRoom, drawSeq,
                 inflight, emitted, bridge>>

\* ---- handlers in two steps: up to the await of the store call, and from its return

\* the continuations of the connection s without the i-th
resumed(s, i) ==
  [inflight EXCEPT ![s] = SubSeq(@, 1, i - 1) \o SubSeq(@, i + 1, Len(@))]

\* some handler is suspended
Overlapping == \E s \in SocketIds : inflight[s] # <<>>

\* handleObjectUpdate up to "await this.persistRoom(room)" in updateObject: the object is
\* read and updated in the store, and the handler waits for the store call to return
ObjectUpdateBegin(r, u, id, position) ==
  /\ CanAct(r, u)
  /\ LET objects == rooms[r][1].objects
         previousObject == getObject(objects, id)
         stored == updateObject(objects, id, <<[position |-> position]>>, u, now)
         updatedObject == getObject(stored, id)
     IN /\ previousObject # <<>>
        /\ rooms' = [rooms EXCEPT ![r][1].objects = stored]
        /\ Mutate({id}, u)
        /\ inflight' = [inflight EXCEPT ![u] =
                          Append(@, [handler |-> "object-update", roomId |-> r,
                                     userId |-> u, objectId |-> id,
                                     previousObject |-> previousObject[1],
                                     updatedObject |-> updatedObject[1],
                                     overlaps |-> Overlapping])]
        /\ result' = [kind |-> "update-begin", userId |-> u, roomId |-> r,
                      objectId |-> id, version |-> updatedObject[1]._version]
  /\ events' = events + 1
  /\ Persist(r)
  /\ UNCHANGED <<now, stacksByRoom, timelineByRoom, cmdSeq, recorded, run, currentRoom,
                 whiteboardLocksByRoom, drawSeq, emitted, bridge>>

\* handleObjectUpdate from the return of updateObject: the command is built and
\* recorded, and object-updated and object-moved are emitted to the room
ObjectUpdateEnd(s, i) ==
  /\ i \in 1..Len(inflight[s])
  /\ inflight[s][i].handler = "object-update"
  /\ LET c == inflight[s][i]
         afterPatch == <<[position |-> c.updatedObject.position]>>
         command == createCommand(cmdSeq + 1, UPDATE_OBJECT, c.userId, c.objectId,
                                  <<[position |-> c.previousObject.position]>>, afterPatch,
                                  NoKey, now)
         effect(event) == [event |-> event, objectId |-> c.objectId,
                           position |-> afterPatch[1].position,
                           version |-> c.updatedObject._version, userId |-> c.userId,
                           commandId |-> command.id, overlaps |-> c.overlaps]
     IN /\ Record(c.roomId, c.userId, command)
        /\ emitted' = emitted \o <<effect("object-updated"), effect("object-moved")>>
  /\ inflight' = resumed(s, i)
  /\ UNCHANGED <<now, rooms, events, run, lastMutAt, lastMutator, redis, currentRoom,
                 whiteboardLocksByRoom, drawSeq, bridge>>

\* socket.on("operation:undo") up to the awaited store call of command.undo: the command
\* is popped, the conflict is read and the store is written; the push on the redo stack
\* waits for the store call to return
OperationUndoBegin(r, u) ==
  /\ CanAct(r, u)
  /\ LET stack == userStack(r, u)
         objects == rooms[r][1].objects
     IN IF stack.undo = <<>>
        THEN /\ stacksByRoom' = [stacksByRoom EXCEPT ![r][u] = <<stack>>]
             /\ result' = [kind |-> "undo", ok |-> FALSE, userId |-> u, roomId |-> r,
                           reason |-> "EMPTY_UNDO", objects |-> objects, stack |-> stack,
                           timeline |-> timelineByRoom[r], broadcast |-> <<>>]
             /\ UNCHANGED <<rooms, lastMutAt, lastMutator, redis, inflight>>
        ELSE LET command == stack.undo[Len(stack.undo)]
                 conflict == detectConflict(command, u, objects)
             IN /\ stacksByRoom' = [stacksByRoom EXCEPT
                                      ![r][u] = <<[stack EXCEPT
                                                     !.undo = SubSeq(@, 1, Len(@) - 1)]>>]
                /\ rooms' = [rooms EXCEPT ![r][1].objects = commandUndo(command, objects, now)]
                /\ Mutate(MutatedBy(command, "undo", objects), u)
                /\ Persist(r)
                /\ inflight' = [inflight EXCEPT ![u] =
                                  Append(@, [handler |-> "undo", roomId |-> r, userId |-> u,
                                             command |-> command, conflict |-> conflict,
                                             popped |-> events + 1])]
                /\ result' = [kind |-> "undo-begin", userId |-> u, roomId |-> r,
                              command |-> command]
  /\ events' = events + 1
  /\ UNCHANGED <<now, timelineByRoom, cmdSeq, recorded, run, currentRoom,
                 whiteboardLocksByRoom, drawSeq, emitted, bridge>>

\* operation:undo from the return of the store call: the command is pushed on the redo
\* stack and logged, and its effect is emitted to the room
OperationUndoEnd(s, i) ==
  /\ i \in 1..Len(inflight[s])
  /\ inflight[s][i].handler = "undo"
  /\ LET c == inflight[s][i]
         stack == userStack(c.roomId, c.userId)
         broadcast == broadcastCommandEffect(c.command, "undo")
     IN /\ stacksByRoom' = [stacksByRoom EXCEPT
                              ![c.roomId][c.userId] =
                                <<[stack EXCEPT !.redo = pushBounded(@, c.command)]>>]
        /\ timelineByRoom' = [timelineByRoom EXCEPT
                                ![c.roomId] = appendTimeline(@, c.command, "undo", c.conflict)]
        /\ emitted' = emitted \o
                        [k \in 1..Len(broadcast) |->
                           [event |-> broadcast[k], objectId |-> c.command.objectId,
                            userId |-> c.userId, commandId |-> c.command.id,
                            popped |-> c.popped]]
        /\ result' = [kind |-> "undo", ok |-> TRUE, userId |-> c.userId,
                      roomId |-> c.roomId, command |-> c.command, conflict |-> c.conflict,
                      objects |-> rooms[c.roomId][1].objects, stack |-> stack,
                      timeline |-> timelineByRoom[c.roomId], broadcast |-> broadcast,
                      at |-> now, popped |-> c.popped, overlapped |-> Len(inflight[s]) > 1]
  /\ inflight' = resumed(s, i)
  /\ UNCHANGED <<now, rooms, cmdSeq, events, recorded, run, lastMutAt, lastMutator, redis,
                 currentRoom, whiteboardLocksByRoom, drawSeq, bridge>>

\* ========================================================= worker-bridge.js

\* this.workers.filter(w => w.healthy)
healthyWorkers(workers) ==
  LET Healthy(w) == w.healthy IN SelectSeq(workers, Healthy)

getHealthyWorkerAnyWorker(b) ==
  [worker |-> <<b.workers[(b.currentIndex % Len(b.workers)) + 1].name>>,
   bridge |-> [b EXCEPT !.currentIndex = @ + 1]]

\* WorkerBridge.getHealthyWorker: <<>> is null, otherwise the worker's name and the
\* bridge with the index advanced
getHealthyWorker(b) ==
  LET healthy == healthyWorkers(b.workers)
  IN IF healthy = <<>>
     THEN [worker |-> <<>>, bridge |-> b]
     ELSE [worker |-> <<healthy[(b.currentIndex % Len(healthy)) + 1].name>>,
           bridge |-> [b EXCEPT !.currentIndex = @ + 1]]

\* worker.healthy = value, for the worker of this name
markWorker(b, name, value) ==
  [b EXCEPT !.workers = [k \in 1..Len(@) |->
                           IF @[k].name = name THEN [@[k] EXCEPT !.healthy = value]
                           ELSE @[k]]]

isHealthy(workers, name) ==
  \E k \in 1..Len(workers) : workers[k].name = name /\ workers[k].healthy

\* WorkerBridge.execute up to the awaited runOnWorker(worker), called for connection s
ExecuteBegin(s) ==
  /\ events < MaxEvents
  /\ LET got == getHealthyWorker(bridge)
     IN IF got.worker = <<>>
        THEN /\ result' = [kind |-> "execute", step |-> "begin", ok |-> FALSE,
                           error |-> "No healthy workers available",
                           before |-> bridge.workers]
             /\ UNCHANGED <<bridge, inflight>>
        ELSE /\ bridge' = got.bridge
             /\ inflight' = [inflight EXCEPT ![s] =
                               Append(@, [handler |-> "execute", worker |-> got.worker[1],
                                          attempt |-> 1])]
             /\ result' = [kind |-> "select", step |-> "begin", worker |-> got.worker[1],
                           attempt |-> 1, before |-> bridge.workers]
  /\ events' = events + 1
  /\ UNCHANGED <<now, rooms, stacksByRoom, timelineByRoom, cmdSeq, recorded, run, lastMutAt,
                 lastMutator, redis, currentRoom, whiteboardLocksByRoom, drawSeq, emitted>>

\* WorkerBridge.execute from the settling of runOnWorker: ok is whether the worker
\* returned a result; the first failure marks the worker and selects a fallback
ExecuteEnd(s, i, ok) ==
  /\ i \in 1..Len(inflight[s])
  /\ inflight[s][i].handler = "execute"
  /\ LET c == inflight[s][i]
     IN IF ok
        THEN /\ result' = [kind |-> "execute", step |-> "end", ok |-> TRUE,
                           worker |-> c.worker, attempt |-> c.attempt,
                           before |-> bridge.workers]
             /\ inflight' = resumed(s, i)
             /\ UNCHANGED bridge
        ELSE IF c.attempt = 1
        THEN LET marked == markWorker(bridge, c.worker, FALSE)
                 got == getHealthyWorker(marked)
             IN IF got.worker = <<>>
                THEN /\ bridge' = marked
                     /\ inflight' = resumed(s, i)
                     /\ result' = [kind |-> "execute", step |-> "end", ok |-> FALSE,
                                   error |-> "All workers failed", worker |-> c.worker,
                                   attempt |-> 1, before |-> marked.workers]
                ELSE /\ bridge' = got.bridge
                     /\ inflight' = [inflight EXCEPT ![s][i] =
                                       [handler |-> "execute", worker |-> got.worker[1],
                                        attempt |-> 2]]
                     /\ result' = [kind |-> "select", step |-> "end",
                                   worker |-> got.worker[1], attempt |-> 2,
                                   failed |-> c.worker, before |-> marked.workers]
        ELSE /\ result' = [kind |-> "execute", step |-> "end", ok |-> FALSE,
                           error |-> "Worker task failed", worker |-> c.worker,
                           attempt |-> c.attempt, before |-> bridge.workers]
             /\ inflight' = resumed(s, i)
             /\ UNCHANGED bridge
  /\ UNCHANGED <<now, rooms, stacksByRoom, timelineByRoom, cmdSeq, events, recorded, run,
                 lastMutAt, lastMutator, redis, currentRoom, whiteboardLocksByRoom,
                 drawSeq, emitted>>

\* WorkerBridge.healthCheck, called by start() and every 30 s: the request to the first
\* worker is sent
HealthCheckBegin ==
  /\ bridge.checking = 0
  /\ bridge' = [bridge EXCEPT !.checking = 1]
  /\ result' = [kind |-> "health", step |-> "begin"]
  /\ UNCHANGED <<now, rooms, stacksByRoom, timelineByRoom, cmdSeq, events, recorded, run,
                 lastMutAt, lastMutator, redis, currentRoom, whiteboardLocksByRoom,
                 drawSeq, inflight, emitted>>

\* healthCheck from the settling of one worker's request: ok is res.status === 200; the
\* loop goes on to the next worker
HealthCheckResponse(ok) ==
  /\ bridge.checking # 0
  /\ bridge' = [markWorker(bridge, bridge.workers[bridge.checking].name, ok)
                  EXCEPT !.checking = IF @ = Len(bridge.workers) THEN 0 ELSE @ + 1]
  /\ result' = [kind |-> "health", step |-> "end",
                worker |-> bridge.workers[bridge.checking].name, ok |-> ok]
  /\ UNCHANGED <<now, rooms, stacksByRoom, timelineByRoom, cmdSeq, events, recorded, run,
                 lastMutAt, lastMutator, redis, currentRoom, whiteboardLocksByRoom,
                 drawSeq, inflight, emitted>>

\* ---- rooms and sessions

\* the server state that joining and leaving a room read and write
Server ==
  [rooms |-> rooms, redis |-> redis, currentRoom |-> currentRoom,
   locks |-> whiteboardLocksByRoom, stacks |-> stacksByRoom, timelines |-> timelineByRoom]

Install(st) ==
  /\ rooms' = st.rooms
  /\ redis' = st.redis
  /\ currentRoom' = st.currentRoom
  /\ whiteboardLocksByRoom' = st.locks
  /\ stacksByRoom' = st.stacks
  /\ timelineByRoom' = st.timelines

\* socket.userId of a connection: every user has the connection named after them, and
\* A2 is a second connection authenticated with A's token
userIdOf(s) == IF s = "A2" THEN "A" ELSE s

\* leaveCurrentRoom(socket) of the connection s: releases the user's locks, leaves the
\* room, reads the room for the room-users broadcast, and drops the operation log and
\* the lock map of a room that is no longer in memory
leaveCurrentRoom(st, s) ==
  LET roomId == st.currentRoom[s]
      u == userIdOf(s)
  IN IF roomId = NoRoom THEN st
     ELSE LET released == [st.locks EXCEPT ![roomId] = releaseUserWhiteboardLocks(@, u)]
              left == leaveRoom(st.rooms, st.redis, roomId, u)
              got == getRoom(left.rooms, left.redis, roomId)
              gone == got.rooms[roomId] = <<>>
          IN [rooms |-> got.rooms,
              redis |-> left.redis,
              currentRoom |-> [st.currentRoom EXCEPT ![s] = NoRoom],
              locks |-> IF gone
                        THEN [released EXCEPT ![roomId] = [w \in WhiteboardIds |-> <<>>]]
                        ELSE released,
              stacks |-> IF gone
                         THEN [st.stacks EXCEPT ![roomId] = [x \in UserIds |-> <<>>]]
                         ELSE st.stacks,
              timelines |-> IF gone
                            THEN [st.timelines EXCEPT ![roomId] = <<>>]
                            ELSE st.timelines]

\* handleCreateRoom: socket.on("create-room") / socket.on("room:create")
HandleCreateRoom(u, r, password, maxUsers, persistent) ==
  /\ LET made == createRoom(rooms, redis,
                            [roomId |-> r, password |-> password, maxUsers |-> maxUsers,
                             persistent |-> persistent, ownerId |-> u])
     IN /\ rooms' = made.rooms
        /\ redis' = made.redis
        /\ result' = [kind |-> "create", ok |-> made.ok, error |-> made.error,
                      roomId |-> normalizeRoomId(r), rawRoomId |-> r, userId |-> u,
                      before |-> rooms[normalizeRoomId(r)]]
  /\ UNCHANGED <<now, stacksByRoom, timelineByRoom, cmdSeq, events, recorded, run,
                 lastMutAt, lastMutator, currentRoom, whiteboardLocksByRoom, drawSeq,
                 inflight, emitted, bridge>>

\* app.post("/api/rooms"): the room has no owner until the first user joins
ApiCreateRoom(r, password, maxUsers, persistent) ==
  /\ LET made == createRoom(rooms, redis,
                            [roomId |-> r, password |-> password, maxUsers |-> maxUsers,
                             persistent |-> persistent, ownerId |-> NoUser])
     IN /\ rooms' = made.rooms
        /\ redis' = made.redis
        /\ result' = [kind |-> "create", ok |-> made.ok, error |-> made.error,
                      roomId |-> normalizeRoomId(r), rawRoomId |-> r, userId |-> NoUser,
                      before |-> rooms[normalizeRoomId(r)]]
  /\ UNCHANGED <<now, stacksByRoom, timelineByRoom, cmdSeq, events, recorded, run,
                 lastMutAt, lastMutator, currentRoom, whiteboardLocksByRoom, drawSeq,
                 inflight, emitted, bridge>>

\* handleJoinRoom on the connection s: socket.on("join-room") / socket.on("room:join")
HandleJoinRoom(s, r, password) ==
  /\ LET previousRoomId == currentRoom[s]
         st == IF previousRoomId # NoRoom /\ previousRoomId # r
               THEN leaveCurrentRoom(Server, s)
               ELSE Server
         before == getRoom(st.rooms, st.redis, r).room
         joined == joinRoom(st.rooms, st.redis, r, userIdOf(s), s, password, now)
     IN /\ Install([st EXCEPT !.rooms = joined.rooms,
                              !.redis = joined.redis,
                              !.currentRoom = IF joined.ok THEN [@ EXCEPT ![s] = r] ELSE @])
        /\ result' = [kind |-> "join", ok |-> joined.ok, error |-> joined.error,
                      userId |-> userIdOf(s), socketId |-> s, roomId |-> r,
                      previousRoomId |-> previousRoomId,
                      password |-> password, at |-> now, storeDown |-> redisThrows(redis),
                      before |-> before, after |-> joined.rooms[r]]
  /\ UNCHANGED <<now, cmdSeq, events, recorded, run, lastMutAt, lastMutator, drawSeq,
                 inflight, emitted, bridge>>

\* socket.on("leave-room") / socket.on("room:leave") / socket.on("disconnect") on the
\* connection s
HandleLeaveRoom(s) ==
  /\ LET roomId == currentRoom[s]
         st == leaveCurrentRoom(Server, s)
     IN /\ Install(st)
        /\ result' = [kind |-> "leave", userId |-> userIdOf(s), roomId |-> roomId,
                      before |-> IF roomId = NoRoom THEN <<>> ELSE rooms[roomId],
                      after |-> IF roomId = NoRoom THEN <<>> ELSE st.rooms[roomId],
                      stored |-> IF roomId = NoRoom THEN <<>>
                                 ELSE redisGet(redis, "room:" \o roomId),
                      timeline |-> IF roomId = NoRoom THEN <<>> ELSE timelineByRoom[roomId]]
  /\ UNCHANGED <<now, cmdSeq, events, recorded, run, lastMutAt, lastMutator, drawSeq,
                 inflight, emitted, bridge>>

\* app.get("/api/rooms/:roomId/files"): roomManager.getRoom(roomId), 404 when null
ApiRoomFiles(r) ==
  /\ LET got == getRoom(rooms, redis, r)
     IN /\ rooms' = got.rooms
        /\ result' = [kind |-> "getRoom", roomId |-> r, room |-> got.room,
                      previous |-> IF result.kind = "leave" /\ result.roomId = r
                                   THEN <<result>> ELSE <<>>]
  /\ UNCHANGED <<now, stacksByRoom, timelineByRoom, cmdSeq, events, recorded, run,
                 lastMutAt, lastMutator, redis, currentRoom, whiteboardLocksByRoom, drawSeq,
                 inflight, emitted, bridge>>

\* the connection to Redis is lost, or comes back
RedisOutage(down) ==
  /\ redis.enabled
  /\ redis.down # down
  /\ redis' = [redis EXCEPT !.down = down]
  /\ UNCHANGED <<now, rooms, stacksByRoom, timelineByRoom, cmdSeq, events, recorded,
                 result, run, lastMutAt, lastMutator, currentRoom, whiteboardLocksByRoom,
                 drawSeq,
                 inflight, emitted, bridge>>

\* time passes between two handler invocations
Tick(step, limit) ==
  /\ now + step <= limit
  /\ now' = now + step
  /\ UNCHANGED <<rooms, stacksByRoom, timelineByRoom, cmdSeq, events, recorded, result,
                 run, lastMutAt, lastMutator, redis, currentRoom, whiteboardLocksByRoom,
                 drawSeq,
                 inflight, emitted, bridge>>

\* ======================================================= specification: Ops
\* One room with the members A and B; the room is empty or was rehydrated with one
\* object that B created earlier (rooms.js hydrateRoom keeps rawRoom.objects).

Member(u) == [userId |-> u, socketId |-> u, joinedAt |-> StartTime]

RedisKeys == {"room:" \o r : r \in RoomIds}

\* REDIS_URL not set: RedisStore.enabled stays false
NoRedis == [enabled |-> FALSE, down |-> FALSE, data |-> [k \in RedisKeys |-> <<>>]]

\* Redis connected and empty
EmptyRedis == [enabled |-> TRUE, down |-> FALSE, data |-> [k \in RedisKeys |-> <<>>]]

\* whiteboardLocksByRoom without any lock
NoLocks == [r \in RoomIds |-> [w \in WhiteboardIds |-> <<>>]]

StoredObject ==
  [id |-> "o1", position |-> 1, _version |-> 1, _updatedAt |-> StartTime,
   _lastModifiedBy |-> "B"]

OpsRoom(objects) ==
  [id |-> "R1", users |-> <<Member("A"), Member("B")>>, objects |-> objects,
   whiteboards |-> <<>>, maxUsers |-> 50, persistent |-> TRUE, ownerId |-> "A",
   passwordHash |-> NoKey]

InitOps ==
  /\ now = StartTime
  /\ \E objects \in {<<>>, <<StoredObject>>} :
       /\ rooms = [r \in RoomIds |-> <<OpsRoom(objects)>>]
       /\ lastMutAt = [o \in ObjIds |-> [u \in UserIds |->
                         IF objects # <<>> /\ u = "B" THEN StartTime ELSE 0]]
       /\ lastMutator = [o \in ObjIds |-> IF objects # <<>> THEN "B" ELSE NoUser]
  /\ stacksByRoom = [r \in RoomIds |-> [u \in UserIds |-> <<>>]]
  /\ timelineByRoom = [r \in RoomIds |-> <<>>]
  /\ cmdSeq = 0
  /\ events = 0
  /\ recorded = [r \in RoomIds |-> [u \in UserIds |-> 0]]
  /\ result = [kind |-> "none"]
  /\ run = NoRun
  /\ redis = NoRedis
  /\ currentRoom = [u \in UserIds |-> "R1"]
  /\ whiteboardLocksByRoom = NoLocks
  /\ drawSeq = 0
  /\ inflight = NoInflight
  /\ emitted = <<>>
  /\ bridge = NewBridge

\* positions a client sends for object id: any position but the one it has
NewPositions(r, id) == Positions \ {Content(rooms[r][1].objects, id)}

\* ---- one user's edits of one object and their undo (round trip)
NextRoundTrip ==
  \/ Tick(LongTickMs, StartTime + LongTickMs)
  \/ \E id \in ObjIds :
       \/ \E position \in NewPositions("R1", id) : ObjectCreate("R1", "A", id, position)
       \/ ObjectDelete("R1", "A", id)
       \/ \E position \in NewPositions("R1", id), transient \in BOOLEAN :
            ObjectMove("R1", "A", id, position, transient)
       \/ \E position \in NewPositions("R1", id) :
            \E clientBefore \in {NoPos, position} :
              ObjectUpdate("R1", "A", id, position, NoKey, clientBefore)
  \/ OperationUndo("R1", "A")
  \/ OperationRedo("R1", "A")

SpecRoundTrip == InitOps /\ [][NextRoundTrip]_vars

\* ---- one user's operation log: record (merge or push), undo, redo
NextLog ==
  \/ Tick(TickMs, MaxTime)
  \/ Tick(LongTickMs, MaxTime)
  \/ \E id \in ObjIds :
       \/ \E position \in NewPositions("R1", id) : ObjectCreate("R1", "A", id, position)
       \/ ObjectDelete("R1", "A", id)
       \/ \E position \in NewPositions("R1", id) :
            ObjectMove("R1", "A", id, position, FALSE)
       \/ \E position \in NewPositions("R1", id), mergeKey \in MergeKeys :
            ObjectUpdate("R1", "A", id, position, mergeKey, NoPos)
  \/ ObjectDeleteAll("R1", "A")
  \/ OperationUndo("R1", "A")
  \/ OperationRedo("R1", "A")

SpecLog == InitOps /\ [][NextLog]_vars

\* ---- two users editing the same object: conflict detection on undo / redo
NextConflict ==
  \/ Tick(LongTickMs, StartTime + LongTickMs)
  \/ \E u \in UserIds :
       \/ \E id \in ObjIds :
            \/ \E position \in NewPositions("R1", id) \ {2} :
                 ObjectCreate("R1", u, id, position)
            \/ ObjectDelete("R1", u, id)
            \/ \E position \in NewPositions("R1", id) :
                 ObjectMove("R1", u, id, position, FALSE)
       \/ OperationUndo("R1", u)
       \/ OperationRedo("R1", u)

SpecConflict == InitOps /\ [][NextConflict]_vars

\* ===================================================== specification: Merge
\* A updates the two objects o1 and o2 with no mergeKey or one of two mergeKeys, B
\* updates o1 with one of these mergeKeys, at once or 500 ms apart.

MergeObject(id) ==
  [id |-> id, position |-> 1, _version |-> 1, _updatedAt |-> StartTime,
   _lastModifiedBy |-> "B"]

InitMerge ==
  /\ now = StartTime
  /\ rooms = [r \in RoomIds |-> <<OpsRoom(<<MergeObject("o1"), MergeObject("o2")>>)>>]
  /\ lastMutAt = [o \in MergeObjIds |-> [u \in UserIds |->
                    IF u = "B" THEN StartTime ELSE 0]]
  /\ lastMutator = [o \in MergeObjIds |-> "B"]
  /\ stacksByRoom = [r \in RoomIds |-> [u \in UserIds |-> <<>>]]
  /\ timelineByRoom = [r \in RoomIds |-> <<>>]
  /\ cmdSeq = 0
  /\ events = 0
  /\ recorded = [r \in RoomIds |-> [u \in UserIds |-> 0]]
  /\ result = [kind |-> "none"]
  /\ run = NoRun
  /\ redis = NoRedis
  /\ currentRoom = [u \in UserIds |-> "R1"]
  /\ whiteboardLocksByRoom = NoLocks
  /\ drawSeq = 0
  /\ inflight = NoInflight
  /\ emitted = <<>>
  /\ bridge = NewBridge

NextMerge ==
  \/ Tick(TickMs, MaxTime)
  \/ \E id \in MergeObjIds, mergeKey \in MoreMergeKeys :
       \E position \in NewPositions("R1", id) :
         ObjectUpdate("R1", "A", id, position, mergeKey, NoPos)
  \/ \E position \in NewPositions("R1", "o1") :
       ObjectUpdate("R1", "B", "o1", position, "k", NoPos)

SpecMerge == InitMerge /\ [][NextMerge]_vars

\* ===================================================== specification: Steps
\* A has updated the object o1, which B created, maxSteps - 1 or maxSteps times, one
\* millisecond apart, without mergeKey, and goes on to update, undo and redo.

\* the position that A's i-th update gave o1
StepPosition(i) == IF i % 2 = 1 THEN 2 ELSE 1

\* the time of A's i-th update out of n
StepTime(i, n) == StartTime - n + i - 1

\* the command of A's i-th update out of n
StepCommand(i, n) ==
  createCommand(i, UPDATE_OBJECT, "A", "o1", <<[position |-> StepPosition(i + 1)]>>,
                <<[position |-> StepPosition(i)]>>, NoKey, StepTime(i, n))

\* the timeline entry of A's i-th update out of n
StepEntry(i, n) ==
  [id |-> i, type |-> UPDATE_OBJECT, userId |-> "A", objectId |-> "o1",
   timestamp |-> StepTime(i, n), status |-> "done", mode |-> "execute", conflict |-> <<>>]

\* o1 after A's n updates
StepObject(n) ==
  [id |-> "o1", position |-> StepPosition(n), _version |-> 1 + n,
   _updatedAt |-> StepTime(n, n), _lastModifiedBy |-> "A"]

InitSteps ==
  /\ now = StartTime
  /\ \E n \in {maxSteps - 1, maxSteps} :
       /\ rooms = [r \in RoomIds |-> <<OpsRoom(<<StepObject(n)>>)>>]
       /\ stacksByRoom = [r \in RoomIds |-> [u \in UserIds |->
                            IF u = "A"
                            THEN <<[undo |-> [i \in 1..n |-> StepCommand(i, n)],
                                    redo |-> <<>>]>>
                            ELSE <<>>]]
       /\ timelineByRoom = [r \in RoomIds |-> [i \in 1..n |-> StepEntry(i, n)]]
       /\ lastMutAt = [o \in ObjIds |-> [u \in UserIds |->
                         IF u = "A" THEN StepTime(n, n) ELSE StepTime(0, n)]]
       /\ cmdSeq = n
       /\ recorded = [r \in RoomIds |-> [u \in UserIds |-> IF u = "A" THEN n ELSE 0]]
  /\ lastMutator = [o \in ObjIds |-> "A"]
  /\ events = 0
  /\ result = [kind |-> "none"]
  /\ run = NoRun
  /\ redis = NoRedis
  /\ currentRoom = [u \in UserIds |-> "R1"]
  /\ whiteboardLocksByRoom = NoLocks
  /\ drawSeq = 0
  /\ inflight = NoInflight
  /\ emitted = <<>>
  /\ bridge = NewBridge

NextSteps ==
  \/ Tick(LongTickMs, StartTime + LongTickMs)
  \/ \E position \in NewPositions("R1", "o1") :
       ObjectUpdate("R1", "A", "o1", position, NoKey, NoPos)
  \/ OperationUndo("R1", "A")
  \/ OperationRedo("R1", "A")

SpecSteps == InitSteps /\ [][NextSteps]_vars

\* ================================================== specification: Timeline
\* A has recorded maxTimeline - 1 or maxTimeline updates of o1; A updates o1 with and
\* without a mergeKey, undoes and redoes, at once or 600 ms later.

InitTimeline ==
  /\ now = StartTime
  /\ \E n \in {maxTimeline - 1, maxTimeline} :
       /\ rooms = [r \in RoomIds |-> <<OpsRoom(<<StepObject(n)>>)>>]
       /\ stacksByRoom = [r \in RoomIds |-> [u \in UserIds |->
                            IF u = "A"
                            THEN <<[undo |-> [i \in 1..maxSteps |->
                                               StepCommand(n - maxSteps + i, n)],
                                    redo |-> <<>>]>>
                            ELSE <<>>]]
       /\ timelineByRoom = [r \in RoomIds |-> [i \in 1..n |-> StepEntry(i, n)]]
       /\ lastMutAt = [o \in ObjIds |-> [u \in UserIds |->
                         IF u = "A" THEN StepTime(n, n) ELSE StepTime(0, n)]]
       /\ cmdSeq = n
       /\ recorded = [r \in RoomIds |-> [u \in UserIds |-> IF u = "A" THEN n ELSE 0]]
  /\ lastMutator = [o \in ObjIds |-> "A"]
  /\ events = 0
  /\ result = [kind |-> "none"]
  /\ run = NoRun
  /\ redis = NoRedis
  /\ currentRoom = [u \in UserIds |-> "R1"]
  /\ whiteboardLocksByRoom = NoLocks
  /\ drawSeq = 0
  /\ inflight = NoInflight
  /\ emitted = <<>>
  /\ bridge = NewBridge

NextTimeline ==
  \/ Tick(LongTickMs, StartTime + LongTickMs)
  \/ \E position \in NewPositions("R1", "o1"), mergeKey \in MergeKeys :
       ObjectUpdate("R1", "A", "o1", position, mergeKey, NoPos)
  \/ OperationUndo("R1", "A")
  \/ OperationRedo("R1", "A")

SpecTimeline == InitTimeline /\ [][NextTimeline]_vars

\* ===================================================== specification: Rooms
\* The server has just started: no room is in memory, no session is in a room.  Redis is
\* not configured, or is connected and empty, or holds the persistent room R1 of an
\* earlier run.

StoredWhiteboard ==
  [id |-> "w1", history |-> <<>>, redoStack |-> <<>>, position |-> DefaultPos,
   updatedAt |-> StartTime, updatedBy |-> "B"]

StoredRoom ==
  [id |-> "R1", users |-> <<>>, objects |-> <<StoredObject>>,
   whiteboards |-> <<StoredWhiteboard>>, maxUsers |-> 2, persistent |-> TRUE,
   ownerId |-> NoUser, passwordHash |-> NoKey]

StoredRedis == [EmptyRedis EXCEPT !.data["room:R1"] = <<StoredRoom>>]

InitRooms ==
  /\ now = StartTime
  /\ rooms = [r \in RoomIds |-> <<>>]
  /\ redis \in {NoRedis, EmptyRedis, StoredRedis}
  /\ currentRoom = [u \in UserIds |-> NoRoom]
  /\ whiteboardLocksByRoom = NoLocks
  /\ stacksByRoom = [r \in RoomIds |-> [u \in UserIds |-> <<>>]]
  /\ timelineByRoom = [r \in RoomIds |-> <<>>]
  /\ lastMutAt = [o \in ObjIds |-> [u \in UserIds |-> 0]]
  /\ lastMutator = [o \in ObjIds |-> NoUser]
  /\ cmdSeq = 0
  /\ events = 0
  /\ recorded = [r \in RoomIds |-> [u \in UserIds |-> 0]]
  /\ result = [kind |-> "none"]
  /\ run = NoRun
  /\ drawSeq = 0
  /\ inflight = NoInflight
  /\ emitted = <<>>
  /\ bridge = NewBridge

NextRooms ==
  \/ \E r \in RawRoomIds, password \in Passwords, maxUsers \in MaxUsersOptions,
        persistent \in BOOLEAN :
       \/ \E u \in UserIds : HandleCreateRoom(u, r, password, maxUsers, persistent)
       \/ ApiCreateRoom(r, password, maxUsers, persistent)
  \/ \E u \in UserIds, r \in RoomIds, password \in Passwords : HandleJoinRoom(u, r, password)
  \/ \E u \in UserIds : HandleLeaveRoom(u)
  \/ \E r \in RoomIds : ApiRoomFiles(r)

SpecRooms == InitRooms /\ [][NextRooms]_vars

\* ==================================================== specification: Rejoin
\* The room R1 is created over REST with room for one or two users; A joins and leaves
\* on two connections and B on one, while time passes.

InitRejoin ==
  /\ now = StartTime
  /\ rooms = [r \in RoomIds |-> <<>>]
  /\ redis = EmptyRedis
  /\ currentRoom = [s \in SocketIds |-> NoRoom]
  /\ whiteboardLocksByRoom = NoLocks
  /\ stacksByRoom = [r \in RoomIds |-> [u \in UserIds |-> <<>>]]
  /\ timelineByRoom = [r \in RoomIds |-> <<>>]
  /\ lastMutAt = [o \in ObjIds |-> [u \in UserIds |-> 0]]
  /\ lastMutator = [o \in ObjIds |-> NoUser]
  /\ cmdSeq = 0
  /\ events = 0
  /\ recorded = [r \in RoomIds |-> [u \in UserIds |-> 0]]
  /\ result = [kind |-> "none"]
  /\ run = NoRun
  /\ drawSeq = 0
  /\ inflight = NoInflight
  /\ emitted = <<>>
  /\ bridge = NewBridge

NextRejoin ==
  \/ Tick(TickMs, MaxTime)
  \/ \E maxUsers \in {1, 2} : ApiCreateRoom(<<"R", "1">>, "", maxUsers, TRUE)
  \/ \E s \in SocketIds : HandleJoinRoom(s, "R1", "")
  \/ \E s \in SocketIds : HandleLeaveRoom(s)

SpecRejoin == InitRejoin /\ [][NextRejoin]_vars

\* ================================================== specification: Overlap
\* A and B update the object o1 of room R1; each handler waits for its store call, and
\* the store calls return in any order.

InitOverlap ==
  /\ now = StartTime
  /\ rooms = [r \in RoomIds |-> <<OpsRoom(<<StoredObject>>)>>]
  /\ lastMutAt = [o \in ObjIds |-> [u \in UserIds |-> IF u = "B" THEN StartTime ELSE 0]]
  /\ lastMutator = [o \in ObjIds |-> "B"]
  /\ stacksByRoom = [r \in RoomIds |-> [u \in UserIds |-> <<>>]]
  /\ timelineByRoom = [r \in RoomIds |-> <<>>]
  /\ cmdSeq = 0
  /\ events = 0
  /\ recorded = [r \in RoomIds |-> [u \in UserIds |-> 0]]
  /\ result = [kind |-> "none"]
  /\ run = NoRun
  /\ redis \in {NoRedis, EmptyRedis}
  /\ currentRoom = [u \in UserIds |-> "R1"]
  /\ whiteboardLocksByRoom = NoLocks
  /\ drawSeq = 0
  /\ inflight = NoInflight
  /\ emitted = <<>>
  /\ bridge = NewBridge

NextOverlap ==
  \/ \E u \in UserIds, position \in Positions : ObjectUpdateBegin("R1", u, "o1", position)
  \/ \E u \in UserIds, i \in 1..MaxEvents : ObjectUpdateEnd(u, i)

SpecOverlap == InitOverlap /\ [][NextOverlap]_vars

\* =================================================== specification: Switch
\* A is in its room R1, which is not persistent; the room R2 does not exist, or has a
\* password, or is full with B; A, on two connections, and B join R1 and R2 and leave.

SwitchRoomIds == {"R1", "R2"}

SwitchRoom(id, members, maxUsers, password) ==
  [id |-> id, users |-> [i \in 1..Len(members) |-> Member(members[i])], objects |-> <<>>,
   whiteboards |-> <<>>, maxUsers |-> maxUsers, persistent |-> FALSE,
   ownerId |-> members[1], passwordHash |-> hashPassword(password)]

InitSwitch ==
  /\ now = StartTime
  /\ \E other \in {<<>>, <<SwitchRoom("R2", <<"B">>, defaultMaxUsers, "pw")>>,
                    <<SwitchRoom("R2", <<"B">>, 1, "")>>} :
       /\ rooms = [r \in SwitchRoomIds |->
                     IF r = "R1" THEN <<SwitchRoom("R1", <<"A">>, defaultMaxUsers, "")>>
                     ELSE other]
       /\ currentRoom = [s \in SocketIds |->
                           IF s = "A" THEN "R1"
                           ELSE IF s = "B" /\ other # <<>> THEN "R2" ELSE NoRoom]
  /\ redis = NoRedis
  /\ whiteboardLocksByRoom = [r \in SwitchRoomIds |-> [w \in WhiteboardIds |-> <<>>]]
  /\ stacksByRoom = [r \in SwitchRoomIds |-> [u \in UserIds |-> <<>>]]
  /\ timelineByRoom = [r \in SwitchRoomIds |-> <<>>]
  /\ lastMutAt = [o \in ObjIds |-> [u \in UserIds |-> 0]]
  /\ lastMutator = [o \in ObjIds |-> NoUser]
  /\ cmdSeq = 0
  /\ events = 0
  /\ recorded = [r \in SwitchRoomIds |-> [u \in UserIds |-> 0]]
  /\ result = [kind |-> "none"]
  /\ run = NoRun
  /\ drawSeq = 0
  /\ inflight = NoInflight
  /\ emitted = <<>>
  /\ bridge = NewBridge

NextSwitch ==
  \/ Tick(TickMs, MaxTime)
  \/ \E s \in SocketIds, r \in SwitchRoomIds, password \in Passwords :
       HandleJoinRoom(s, r, password)
  \/ \E s \in SocketIds : HandleLeaveRoom(s)

SpecSwitch == InitSwitch /\ [][NextSwitch]_vars

\* ============================================== specification: UndoOverlap
\* A has recorded two or three updates of o1; A sends operation:undo while earlier undos
\* wait for their store calls, which return in any order, and A redoes.

OverlapSteps == {2, 3}

InitUndoOverlap ==
  /\ now = StartTime
  /\ \E n \in OverlapSteps :
       /\ rooms = [r \in RoomIds |-> <<OpsRoom(<<StepObject(n)>>)>>]
       /\ stacksByRoom = [r \in RoomIds |-> [u \in UserIds |->
                            IF u = "A"
                            THEN <<[undo |-> [i \in 1..n |-> StepCommand(i, n)],
                                    redo |-> <<>>]>>
                            ELSE <<>>]]
       /\ timelineByRoom = [r \in RoomIds |-> [i \in 1..n |-> StepEntry(i, n)]]
       /\ lastMutAt = [o \in ObjIds |-> [u \in UserIds |->
                         IF u = "A" THEN StepTime(n, n) ELSE StepTime(0, n)]]
       /\ cmdSeq = n
       /\ recorded = [r \in RoomIds |-> [u \in UserIds |-> IF u = "A" THEN n ELSE 0]]
  /\ lastMutator = [o \in ObjIds |-> "A"]
  /\ events = 0
  /\ result = [kind |-> "none"]
  /\ run = NoRun
  /\ redis \in {NoRedis, EmptyRedis}
  /\ currentRoom = [u \in UserIds |-> "R1"]
  /\ whiteboardLocksByRoom = NoLocks
  /\ drawSeq = 0
  /\ inflight = NoInflight
  /\ emitted = <<>>
  /\ bridge = NewBridge

NextUndoOverlap ==
  \/ Tick(LongTickMs, StartTime + LongTickMs)
  \/ OperationUndoBegin("R1", "A")
  \/ \E i \in 1..MaxEvents : OperationUndoEnd("A", i)
  \/ OperationRedo("R1", "A")

SpecUndoOverlap == InitUndoOverlap /\ [][NextUndoOverlap]_vars

\* =================================================== specification: Workers
\* A's connection sends tasks without waiting for their results while health checks run; the outcome of every
\* request to a worker is free.

InitWorkers ==
  /\ InitOps
  /\ redis = NoRedis

NextWorkers ==
  \/ ExecuteBegin("A")
  \/ \E i \in 1..MaxEvents, ok \in BOOLEAN : ExecuteEnd("A", i, ok)
  \/ HealthCheckBegin
  \/ \E ok \in BOOLEAN : HealthCheckResponse(ok)

SpecWorkers == InitWorkers /\ [][NextWorkers]_vars

\* ==================================================== specification: Stale
\* A creates the room R1, not persistent; A joins and leaves on two connections and B on
\* one; the connections named after A and B lock the whiteboard and delete all objects of
\* their current room.

InitStale ==
  /\ now = StartTime
  /\ rooms = [r \in RoomIds |-> <<>>]
  /\ redis = NoRedis
  /\ currentRoom = [s \in SocketIds |-> NoRoom]
  /\ whiteboardLocksByRoom = NoLocks
  /\ stacksByRoom = [r \in RoomIds |-> [u \in UserIds |-> <<>>]]
  /\ timelineByRoom = [r \in RoomIds |-> <<>>]
  /\ lastMutAt = [o \in ObjIds |-> [u \in UserIds |-> 0]]
  /\ lastMutator = [o \in ObjIds |-> NoUser]
  /\ cmdSeq = 0
  /\ events = 0
  /\ recorded = [r \in RoomIds |-> [u \in UserIds |-> 0]]
  /\ result = [kind |-> "none"]
  /\ run = NoRun
  /\ drawSeq = 0
  /\ inflight = NoInflight
  /\ emitted = <<>>
  /\ bridge = NewBridge

NextStale ==
  \/ HandleCreateRoom("A", <<"R", "1">>, "", 2, FALSE)
  \/ \E s \in SocketIds : HandleJoinRoom(s, "R1", "")
  \/ \E s \in SocketIds : HandleLeaveRoom(s)
  \/ \E u \in UserIds :
       \/ WhiteboardLock("R1", u, "w1", 1000)
       \/ ObjectDeleteAll("R1", u)

SpecStale == InitStale /\ [][NextStale]_vars

\* ==================================================== specification: Outage
\* The persistent room R1 is in memory and stored; A joins on two connections and B on
\* one, while the connection to Redis is lost and comes back.

OutageRoom ==
  [id |-> "R1", users |-> <<>>, objects |-> <<>>, whiteboards |-> <<>>,
   maxUsers |-> defaultMaxUsers, persistent |-> TRUE, ownerId |-> NoUser,
   passwordHash |-> hashPassword("pw")]

InitOutage ==
  /\ now = StartTime
  /\ rooms = [r \in RoomIds |-> <<OutageRoom>>]
  /\ redis = [EmptyRedis EXCEPT !.data["room:R1"] = <<OutageRoom>>]
  /\ currentRoom = [s \in SocketIds |-> NoRoom]
  /\ whiteboardLocksByRoom = NoLocks
  /\ stacksByRoom = [r \in RoomIds |-> [u \in UserIds |-> <<>>]]
  /\ timelineByRoom = [r \in RoomIds |-> <<>>]
  /\ lastMutAt = [o \in ObjIds |-> [u \in UserIds |-> 0]]
  /\ lastMutator = [o \in ObjIds |-> NoUser]
  /\ cmdSeq = 0
  /\ events = 0
  /\ recorded = [r \in RoomIds |-> [u \in UserIds |-> 0]]
  /\ result = [kind |-> "none"]
  /\ run = NoRun
  /\ drawSeq = 0
  /\ inflight = NoInflight
  /\ emitted = <<>>
  /\ bridge = NewBridge

NextOutage ==
  \/ Tick(TickMs, MaxTime)
  \/ \E down \in BOOLEAN : RedisOutage(down)
  \/ \E s \in SocketIds, password \in Passwords : HandleJoinRoom(s, "R1", password)

SpecOutage == InitOutage /\ [][NextOutage]_vars

\* ===================================================== specification: Locks
\* A and B are in room R1, which has the whiteboard w1.

WhiteboardRoom ==
  [id |-> "R1", users |-> <<Member("A"), Member("B")>>, objects |-> <<>>,
   whiteboards |-> <<StoredWhiteboard>>, maxUsers |-> defaultMaxUsers,
   persistent |-> TRUE, ownerId |-> "A", passwordHash |-> NoKey]

InitWhiteboard ==
  /\ now = StartTime
  /\ rooms = [r \in RoomIds |-> <<WhiteboardRoom>>]
  /\ redis = NoRedis
  /\ currentRoom = [u \in UserIds |-> "R1"]
  /\ whiteboardLocksByRoom = NoLocks
  /\ stacksByRoom = [r \in RoomIds |-> [u \in UserIds |-> <<>>]]
  /\ timelineByRoom = [r \in RoomIds |-> <<>>]
  /\ lastMutAt = [o \in ObjIds |-> [u \in UserIds |-> 0]]
  /\ lastMutator = [o \in ObjIds |-> NoUser]
  /\ cmdSeq = 0
  /\ events = 0
  /\ recorded = [r \in RoomIds |-> [u \in UserIds |-> 0]]
  /\ result = [kind |-> "none"]
  /\ run = NoRun
  /\ drawSeq = 0
  /\ inflight = NoInflight
  /\ emitted = <<>>
  /\ bridge = NewBridge

NextLocks ==
  \/ Tick(TickMs, LockMaxTime)
  \/ \E u \in UserIds, w \in WhiteboardIds :
       \/ \E ttlMs \in TtlOptions : WhiteboardLock("R1", u, w, ttlMs)
       \/ \E force \in BOOLEAN : WhiteboardUnlock("R1", u, w, force)

SpecLocks == InitWhiteboard /\ [][NextLocks]_vars

\* ====================================================== specification: LockTtl
\* A and B request the lock of w1 with no ttlMs, a short one and a long one.

NextLockTtl ==
  \/ Tick(TickMs, LockMaxTime)
  \/ \E u \in UserIds, w \in WhiteboardIds :
       \/ \E ttlMs \in LongTtlOptions : WhiteboardLock("R1", u, w, ttlMs)
       \/ WhiteboardUnlock("R1", u, w, FALSE)

SpecLockTtl == InitWhiteboard /\ [][NextLockTtl]_vars

\* ====================================================== specification: Draw
\* A draws on the whiteboard w1 until its history has passed the cap.

NextDraw == WhiteboardDraw("R1", "A", "w1", "stroke")

SpecDraw == InitWhiteboard /\ [][NextDraw]_vars

\* ==================================================== specification: Boards
\* A (the host) and B (a member) send host-only whiteboard operations and draw.

NextBoards ==
  \E u \in UserIds, w \in WhiteboardIds :
    \/ \E position \in {NoPos, 1} : WhiteboardCreate("R1", u, w, position)
    \/ WhiteboardDelete("R1", u, w)
    \/ WhiteboardTransform("R1", u, w, 2)
    \/ WhiteboardClear("R1", u, w)
    \/ \E type \in {"stroke", "CLEAR"} :
         drawSeq < BoardDraws /\ WhiteboardDraw("R1", u, w, type)

SpecBoards == InitWhiteboard /\ [][NextBoards]_vars

\* ============================================== specification: BoardPayload
\* A (the host) creates the whiteboard w1 with a payload that carries no lists, or a
\* history of 501 actions, or a redoStack of 501 actions; A and B draw, undo and redo.

PayloadAction(i) == [id |-> 0 - i, type |-> "stroke", userId |-> "A", timestamp |-> StartTime]

LongList == [i \in 1..(maxWhiteboardHistory + 1) |-> PayloadAction(i)]

CreatePayloads ==
  {[id |-> "w1", position |-> NoPos],
   [id |-> "w1", position |-> NoPos, history |-> LongList, redoStack |-> <<>>],
   [id |-> "w1", position |-> NoPos, history |-> <<>>, redoStack |-> LongList]}

NextBoardPayload ==
  \/ \E data \in CreatePayloads : WhiteboardCreateData("R1", "A", data)
  \/ \E u \in UserIds, w \in WhiteboardIds :
       \/ drawSeq < BoardDraws /\ WhiteboardDraw("R1", u, w, "stroke")
       \/ WhiteboardUndo("R1", u, w)
       \/ WhiteboardRedo("R1", u, w)

SpecBoardPayload == InitWhiteboard /\ [][NextBoardPayload]_vars

\* ================================================= specification: BoardLock
\* A and B draw on the whiteboard, undo and redo its actions, and take its lock.

NextBoardLock ==
  \/ Tick(TickMs, MaxTime)
  \/ \E u \in UserIds, w \in WhiteboardIds :
       \/ drawSeq < BoardDraws /\ WhiteboardDraw("R1", u, w, "stroke")
       \/ WhiteboardUndo("R1", u, w)
       \/ WhiteboardRedo("R1", u, w)
       \/ WhiteboardLock("R1", u, w, 1000)

SpecBoardLock == InitWhiteboard /\ [][NextBoardLock]_vars

\* ================================================================= claims

Objects(r) == rooms[r][1].objects

\* the last k operations of the current run each became an undo-stack entry of their own
\* (not merged into the entry below, not transient) with a server-derived inverse
\* (object-create of an absent object, before patch equal to the previous value)
LastOwn(k) ==
  \A i \in (Len(run.pres) - k + 1)..Len(run.pres) : run.pres[i].own

UndoRedoOnObject ==
  /\ result.kind \in {"undo", "redo"}
  /\ result.ok
  /\ result.command.objectId # NoObj

\* C2 as stated: undo/redo by A of a command C on O reports a conflict if and only if
\* a user other than A mutated O at a time strictly later than C's timestamp.
ConflictIffForeignMutationAfter ==
  UndoRedoOnObject => ((result.conflict # <<>>) <=> result.foreignAfter)

\* C2 amended: a conflict is reported if and only if O still exists and the most recent
\* mutation of O is by a user other than A, strictly later than C's timestamp; the
\* conflict names that user.
ConflictIffLatestMutationForeign ==
  UndoRedoOnObject =>
    /\ (result.conflict # <<>>) <=> result.latestForeign
    /\ result.conflict # <<>> =>
         /\ result.conflict[1].lastModifiedBy = result.latestBy
         /\ result.conflict[1].lastModifiedBy # result.userId
         /\ result.conflict[1].updatedAt > result.command.timestamp

\* A undoes its command after B mutated the object: the conflict names B
ConflictWitness ==
  /\ UndoRedoOnObject
  /\ result.kind = "undo"
  /\ result.userId = "A"
  /\ result.conflict # <<>>
  /\ result.conflict[1].lastModifiedBy = "B"

\* the last record() found an UPDATE_OBJECT on top of the stack with the same object and
\* the same non-null mergeKey as the recorded UPDATE_OBJECT
RecordedOnMergeable ==
  /\ result.kind = "record"
  /\ result.prevUndo # <<>>
  /\ result.command.type = UPDATE_OBJECT
  /\ result.prevUndo[Len(result.prevUndo)].type = UPDATE_OBJECT
  /\ result.prevUndo[Len(result.prevUndo)].objectId = result.command.objectId
  /\ result.command.mergeKey # NoKey
  /\ result.prevUndo[Len(result.prevUndo)].mergeKey = result.command.mergeKey

\* C3: two consecutive UPDATE_OBJECT commands of one user on one object with the same
\* non-null mergeKey at most 500 ms apart are one undo-stack entry with the first
\* command's before and the second command's after; more than 500 ms apart (600 ms)
\* they are two entries.
MergeWithinWindow ==
  RecordedOnMergeable =>
    LET first == result.prevUndo[Len(result.prevUndo)]
        second == result.command
        undoStack == userStack(result.roomId, result.userId).undo
    IN IF second.timestamp - first.timestamp <= 500
       THEN /\ Len(undoStack) = Len(result.prevUndo)
            /\ undoStack[Len(undoStack)].before = first.before
            /\ undoStack[Len(undoStack)].after = second.after
            /\ \A i \in 1..(Len(undoStack) - 1) : undoStack[i] = result.prevUndo[i]
       ELSE /\ Len(undoStack) = Len(result.prevUndo) + 1
            /\ undoStack[Len(undoStack)] = second
            /\ undoStack[Len(undoStack) - 1] = first

\* two moves exactly 500 ms apart were merged
MergeWitness ==
  /\ RecordedOnMergeable
  /\ result.command.timestamp - result.prevUndo[Len(result.prevUndo)].timestamp = 500
  /\ result.merged
  /\ result.command.after # result.prevUndo[Len(result.prevUndo)].after

\* C4: the sizes of a user's undo and redo stacks together never exceed the number of
\* commands recorded for that user in that room.
StackSizesWithinRecorded ==
  \A r \in RoomIds, u \in UserIds :
    Len(userStack(r, u).undo) + Len(userStack(r, u).redo) <= recorded[r][u]

\* both stacks hold a command and every recorded command is on one of them
StackSizesWitness ==
  /\ Len(userStack("R1", "A").undo) > 0
  /\ Len(userStack("R1", "A").redo) > 0
  /\ Len(userStack("R1", "A").undo) + Len(userStack("R1", "A").redo) = recorded["R1"]["A"]

\* C5: after every record(), merged or pushed, that user's redo stack is empty.
RedoEmptyAfterRecord ==
  result.kind = "record" => userStack(result.roomId, result.userId).redo = <<>>

\* a command was merged into the top entry while the redo stack held an undone command
RedoClearedOnMergeWitness ==
  /\ result.kind = "record"
  /\ result.merged
  /\ result.prevRedo # <<>>
  /\ userStack(result.roomId, result.userId).redo = <<>>

\* ---- rooms

RoomsInMemory == {r \in RoomIds : rooms[r] # <<>>}

\* C6 as stated (invariant part): in every reachable state every room satisfies
\* users.size <= maxUsers.
UsersWithinMaxUsers ==
  \A r \in RoomsInMemory : Len(rooms[r][1].users) <= rooms[r][1].maxUsers

\* a join with the room's password by a user who is not a member of the room, which
\* holds exactly maxUsers members
JoinAtCapacity ==
  /\ result.kind = "join"
  /\ result.before # <<>>
  /\ userIndex(result.before[1].users, result.userId) = 0
  /\ Len(result.before[1].users) = result.before[1].maxUsers
  /\ \/ result.before[1].passwordHash = NoKey
     \/ result.before[1].passwordHash = hashPassword(result.password)

\* C6 (join part): a join by a non-member of a room with users.size = maxUsers fails
\* with 'Room is full' and leaves the room's membership unchanged.
JoinAtCapacityIsRefused ==
  JoinAtCapacity =>
    /\ ~result.ok
    /\ result.error = "Room is full"
    /\ result.after # <<>>
    /\ result.after[1].users = result.before[1].users

\* B's join of a room that holds its one permitted member, A, was refused
JoinAtCapacityWitness ==
  /\ JoinAtCapacity
  /\ result.before[1].maxUsers = 1
  /\ result.userId = "B"
  /\ ~result.ok

\* the leave l was the leave of the only member of a room
LastMemberLeft(l) ==
  /\ l.before # <<>>
  /\ Len(l.before[1].users) = 1
  /\ l.before[1].users[1].userId = l.userId

\* room (<<>> or <<room>>) is what C7 says of the room that leave l emptied
AsAfterLastLeave(l, room) ==
  IF l.before[1].persistent
  THEN /\ room # <<>>
       /\ room[1].objects = l.before[1].objects
       /\ room[1].whiteboards = l.before[1].whiteboards
       /\ room[1].users = <<>>
  ELSE room = <<>>

\* C7: when the last member of a non-persistent room leaves, the room is removed and the
\* next getRoom for its id returns null; when the last member of a persistent room
\* leaves, the room stays and the next getRoom returns it with its objects and
\* whiteboards intact.
LastLeaveRemovesUnlessPersistent ==
  /\ (result.kind = "leave" /\ LastMemberLeft(result)) =>
       AsAfterLastLeave(result, result.after)
  /\ (result.kind = "getRoom" /\ result.previous # <<>>
        /\ LastMemberLeft(result.previous[1])) =>
       AsAfterLastLeave(result.previous[1], result.room)

\* getRoom returned null after the last member left a non-persistent room, with Redis
\* connected
RemovedRoomWitness ==
  /\ result.kind = "getRoom"
  /\ result.previous # <<>>
  /\ LastMemberLeft(result.previous[1])
  /\ ~result.previous[1].before[1].persistent
  /\ result.room = <<>>
  /\ redis.enabled

\* ---- whiteboard locks

\* a lock request by a user other than the holder of the stored lock
RequestAgainstHolder ==
  /\ result.kind = "lock"
  /\ result.stored # <<>>
  /\ result.stored[1].userId # result.userId

\* C8: while A's lock on W is unexpired, a lock request for W by B # A is rejected at
\* once and A remains the holder (a whiteboard has one lock entry, so one holder).
LockRequestRejectedWhileHeld ==
  (RequestAgainstHolder /\ result.at < result.stored[1].expiresAt) =>
    /\ ~result.ok
    /\ result.reason = "locked"
    /\ result.lock = result.stored
    /\ result.holder = result.stored

\* B was rejected one tick before A's lock expired
RejectedWitness ==
  /\ RequestAgainstHolder
  /\ result.userId = "B"
  /\ result.stored[1].expiresAt - result.at = TickMs
  /\ ~result.ok
  /\ whiteboardLocksByRoom["R1"][result.whiteboardId] = result.stored

\* C9: once the TTL of A's lock has elapsed (A neither re-acquired nor released it: the
\* lock is still stored), a lock request by B # A succeeds and B becomes the holder;
\* the expired lock is dropped by that request itself.
LockRequestSucceedsAfterExpiry ==
  (RequestAgainstHolder /\ result.at >= result.stored[1].expiresAt) =>
    /\ result.ok
    /\ result.holder # <<>>
    /\ result.holder[1].userId = result.userId
    /\ result.holder[1].acquiredAt = result.at
    /\ result.holder[1].expiresAt > result.at

\* B acquired the lock at the very time A's stored lock expired
ExpiredLockTakenWitness ==
  /\ RequestAgainstHolder
  /\ result.userId = "B"
  /\ result.stored[1].userId = "A"
  /\ result.at = result.stored[1].expiresAt
  /\ result.ok
  /\ whiteboardLocksByRoom["R1"][result.whiteboardId][1].userId = "B"

\* ---- whiteboard history

History(r, w) == rooms[r][1].whiteboards[whiteboardIndex(rooms[r][1].whiteboards, w)].history

\* C10: appending an action to a whiteboard whose history holds 500 actions drops the
\* oldest action, leaves exactly 500 actions, keeps the order of the others and puts
\* the new action last.
AppendAtCapDropsOldest ==
  (result.kind = "draw" /\ result.appended /\ Len(result.previous) = 500) =>
    LET history == History(result.roomId, result.whiteboardId)
    IN /\ Len(history) = 500
       /\ history[500] = result.action
       /\ \A i \in 1..499 : history[i] = result.previous[i + 1]

\* the second action appended to a full history: the first two actions are gone
AppendAtCapWitness ==
  /\ result.kind = "draw"
  /\ result.appended
  /\ Len(result.previous) = 500
  /\ result.previous[1].id = 2
  /\ History("R1", "w1")[1].id = 3
  /\ History("R1", "w1")[500].id = 502

\* ---- object versions

\* C11: every accepted mutation of an object that exists leaves its _version strictly
\* greater than before; _version never decreases or repeats, whatever the client sends.
VersionStrictlyIncreases ==
  [][\A id \in ObjIds :
       LET before == getObject(rooms["R1"][1].objects, id)
           after == getObject(rooms'["R1"][1].objects, id)
       IN (before # <<>> /\ after # <<>> /\ after # before) =>
            after[1]._version > before[1]._version]_vars

\* an object-create of an id that exists has put the object back to _version 1 after
\* the object had reached a higher _version
VersionResetWitness ==
  /\ result.kind = "record"
  /\ result.command.type = CREATE_OBJECT
  /\ result.prevUndo # <<>>
  /\ result.prevUndo[Len(result.prevUndo)].type = UPDATE_OBJECT
  /\ result.prevUndo[Len(result.prevUndo)].objectId = result.command.objectId
  /\ getObject(rooms["R1"][1].objects, result.command.objectId)[1]._version = 1

\* ---- whiteboard unlock

\* an unlock request against the unexpired lock of another user, sent by a member who
\* is not the host of the room
UnlockByOtherMember ==
  /\ result.kind = "unlock"
  /\ result.stored # <<>>
  /\ result.stored[1].userId # result.userId
  /\ result.at < result.stored[1].expiresAt
  /\ rooms[result.roomId][1].ownerId # result.userId

\* C12: an unlock request sent by a member Y # X who is not the host leaves the
\* unexpired lock held by X, whatever its payload.
UnlockByOtherMemberKeepsLock ==
  UnlockByOtherMember =>
    whiteboardLocksByRoom[result.roomId][result.whiteboardId] = result.stored

\* member B's unlock request with force released the lock held by A
ForcedReleaseByMemberWitness ==
  /\ UnlockByOtherMember
  /\ result.userId = "B"
  /\ result.stored[1].userId = "A"
  /\ result.released
  /\ whiteboardLocksByRoom[result.roomId][result.whiteboardId] = <<>>

\* ---- host-only whiteboard operations

Whiteboards(r) == rooms[r][1].whiteboards

\* the last handler was a whiteboard create, delete, transform or clear sent by a user
\* who is not the host
GatedRequestByMember ==
  /\ result.kind = "whiteboard"
  /\ result.action \in {"create", "delete", "transform", "clear"}
  /\ result.role # "host"

\* the last handler was a whiteboard-draw of a CLEAR action sent by a user who is not
\* the host
ClearDrawnByMember ==
  /\ result.kind = "draw"
  /\ result.action.type = "CLEAR"
  /\ getUserRole(rooms[result.roomId], result.userId) # "host"

\* C13 as stated: a user who is not the host can never create, delete or transform a
\* whiteboard, nor cause a CLEAR action to be appended to a whiteboard's history; the
\* attempt leaves the room's whiteboards unchanged.
MemberCannotChangeWhiteboards ==
  /\ GatedRequestByMember => Whiteboards(result.roomId) = result.before
  /\ ClearDrawnByMember => Whiteboards(result.roomId) = result.before

\* C13 (gated handlers): whiteboard:create, delete, transform and clear sent by a user
\* who is not the host leave the room's whiteboards unchanged.
GatedRequestByMemberIsRefused ==
  GatedRequestByMember => Whiteboards(result.roomId) = result.before

\* member B's whiteboard-draw of a CLEAR action is the last entry of the history
ClearAppendedByMemberWitness ==
  /\ ClearDrawnByMember
  /\ result.userId = "B"
  /\ result.appended
  /\ Whiteboards("R1") # <<>>
  /\ Whiteboards("R1")[1].history # <<>>
  /\ Whiteboards("R1")[1].history[Len(Whiteboards("R1")[1].history)].type = "CLEAR"
  /\ Whiteboards("R1")[1].history[Len(Whiteboards("R1")[1].history)].userId = "B"

\* ---- C14
\* a whiteboard-draw arrived while another user's lock on the whiteboard was stored and
\* not yet expired
DrawUnderForeignLock ==
  /\ result.kind = "draw"
  /\ result.stored # <<>>
  /\ result.stored[1].userId # result.userId
  /\ result.at < result.stored[1].expiresAt

\* C14: while whiteboard W is locked by user X and the lock has not expired, a
\* whiteboard-draw from a user other than X is rejected with lock-denied, the room's
\* whiteboards (history and redoStack of W) are unchanged and no draw is broadcast
DrawUnderForeignLockIsRejected ==
  DrawUnderForeignLock =>
    /\ result.denied
    /\ ~result.appended
    /\ ~result.broadcast
    /\ Whiteboards(result.roomId) = result.before

\* B's draw was refused under A's lock on a whiteboard with history and redoStack
DrawRejectedWitness ==
  /\ DrawUnderForeignLock
  /\ result.userId = "B"
  /\ result.denied
  /\ result.before # <<>>
  /\ result.before[1].history # <<>>
  /\ result.before[1].redoStack # <<>>

\* ---- C15
\* the last handler was a whiteboard:lock request that was granted
LockGranted == result.kind = "lock" /\ result.ok /\ result.lock # <<>>

\* expiresAt - acquiredAt of the lock the last request was granted
LockLifetime == result.lock[1].expiresAt - result.lock[1].acquiredAt

\* C15: a granted lock lives WHITEBOARD_LOCK_TTL_MS when the request has no ttlMs, and
\* never longer than a cap of a few seconds whatever ttlMs the request carries
LockLifetimeWithinCap ==
  LockGranted =>
    /\ result.ttlMs = 0 => LockLifetime = WHITEBOARD_LOCK_TTL_MS
    /\ LockLifetime <= LockCapMs

\* C15, default only: a granted lock lives WHITEBOARD_LOCK_TTL_MS when the request has no
\* ttlMs, and ttlMs (at least 500) otherwise
LockLifetimeIsRequested ==
  LockGranted =>
    /\ result.ttlMs = 0 => LockLifetime = WHITEBOARD_LOCK_TTL_MS
    /\ result.ttlMs >= 500 => LockLifetime = result.ttlMs

\* a lock was granted for the whole of a long ttlMs, past the cap
LongLockWitness ==
  /\ LockGranted
  /\ result.ttlMs = LongTtlMs
  /\ LockLifetime = LongTtlMs
  /\ LockLifetime > LockCapMs

\* ---- C16
\* the last handler was a join that failed
JoinFailed == result.kind = "join" /\ ~result.ok

\* the last handler was a join of a room that has a password, with a password whose hash
\* is not the room's
JoinWithWrongPassword ==
  /\ result.kind = "join"
  /\ result.before # <<>>
  /\ result.before[1].passwordHash # NoKey
  /\ hashPassword(result.password) # result.before[1].passwordHash

Rejoin ==
  /\ result.kind = "join"
  /\ result.before # <<>>
  /\ userIndex(result.before[1].users, result.userId) # 0
  /\ \/ result.before[1].passwordHash = NoKey
     \/ result.before[1].passwordHash = hashPassword(result.password)

\* the member record of the rejoining user before and after the join
MemberBefore == result.before[1].users[userIndex(result.before[1].users, result.userId)]
MemberAfter == result.after[1].users[userIndex(result.after[1].users, result.userId)]

\* C17: a join by a user who is already a member succeeds, also when the room holds
\* maxUsers members, leaves the number of members unchanged, keeps the member's joinedAt
\* and stores the joining connection's socketId
RejoinKeepsMembership ==
  Rejoin =>
    /\ result.ok
    /\ rooms[result.roomId] = result.after
    /\ Len(result.after[1].users) = Len(result.before[1].users)
    /\ userIndex(result.after[1].users, result.userId) # 0
    /\ MemberAfter.joinedAt = MemberBefore.joinedAt
    /\ MemberAfter.socketId = result.socketId

\* A rejoined a full room on a second connection, later than the first join
RejoinWitness ==
  /\ Rejoin
  /\ Len(result.before[1].users) = result.before[1].maxUsers
  /\ MemberBefore.socketId # result.socketId
  /\ MemberBefore.joinedAt < result.at
  /\ result.ok

\* ---- C18
\* the last handler was a successful join
Joined == result.kind = "join" /\ result.ok /\ result.after # <<>>

\* the joiner of the last join owns the room and has the role host
JoinerIsOwner ==
  /\ result.after[1].ownerId = result.userId
  /\ getUserRole(result.after, result.userId) = "host"

\* C18: the first successful join of a room, here the join that follows the room's
\* creation, makes the joiner the room's owner with the role host
FirstJoinerBecomesOwner ==
  [][(/\ result.kind = "create" /\ result.ok
      /\ result'.kind = "join" /\ result'.ok /\ result'.roomId = result.roomId)
     => /\ result'.after # <<>>
        /\ result'.after[1].ownerId = result'.userId
        /\ getUserRole(result'.after, result'.userId) = "host"]_vars

\* C18, rooms without owner: a successful join of a room whose ownerId is null makes the
\* joiner the room's owner with the role host; a room that has an owner keeps it
JoinerOfOwnerlessRoomBecomesOwner ==
  Joined =>
    IF result.before[1].ownerId = NoUser
    THEN JoinerIsOwner
    ELSE result.after[1].ownerId = result.before[1].ownerId

\* B was the first to join a room that A created over the socket: A owns the room
\* without being a member, and B is a member without the role host
FirstJoinerNotOwnerWitness ==
  /\ Joined
  /\ result.userId = "B"
  /\ result.before[1].users = <<>>
  /\ result.after[1].ownerId = "A"
  /\ userIndex(result.after[1].users, "A") = 0
  /\ getUserRole(result.after, "B") = "member"

\* ---- C19
\* the last handler was a leave of a room that was in memory and still is
LeftRoomKept == result.kind = "leave" /\ result.before # <<>> /\ result.after # <<>>

\* C19: when the owner leaves a room that is not destroyed, ownerId becomes the userId
\* of one of the remaining members, or null when none remain (persistent room); a leave
\* by a user who is not the owner leaves ownerId unchanged
LeaveReassignsOwner ==
  LeftRoomKept =>
    IF result.before[1].ownerId = result.userId
    THEN IF result.after[1].users # <<>>
         THEN userIndex(result.after[1].users, result.after[1].ownerId) # 0
         ELSE result.after[1].ownerId = NoUser /\ result.after[1].persistent
    ELSE result.after[1].ownerId = result.before[1].ownerId

\* the owner A left the room and the remaining member B is now the owner
OwnerLeftWitness ==
  /\ LeftRoomKept
  /\ result.userId = "A"
  /\ result.before[1].ownerId = "A"
  /\ result.after[1].users # <<>>
  /\ result.after[1].ownerId = "B"

\* ---- C20
\* the last handler was a createRoom with an id that normalizes to the id of a room in
\* memory
CreateOfLiveRoom == result.kind = "create" /\ result.before # <<>>

\* C20: createRoom with an id that, trimmed and upper-cased, is the id of a room in
\* memory fails with 'Room already exists' and leaves that room unchanged
CreateOfLiveRoomFails ==
  CreateOfLiveRoom =>
    /\ ~result.ok
    /\ result.error = "Room already exists"
    /\ rooms[result.roomId] = result.before

\* a create-room for "r1" was refused by the room R1, which has a member
CreateOfLiveRoomWitness ==
  /\ CreateOfLiveRoom
  /\ result.rawRoomId = <<"r", "1">>
  /\ result.roomId = "R1"
  /\ result.before[1].users # <<>>
  /\ ~result.ok

\* ---- C21
\* C21: every non-persistent room in memory has at least one member
NonPersistentRoomsHaveMembers ==
  \A r \in RoomsInMemory : ~rooms[r][1].persistent => rooms[r][1].users # <<>>

\* the non-persistent room r is in memory
NonPersistentResident(rs, r) == rs[r] # <<>> /\ ~rs[r][1].persistent

\* C21, rooms that have been joined: a non-persistent room that has a member is, after
\* any step, either gone from memory or still has a member; it is never in memory with
\* zero users
EmptiedRoomIsDestroyed ==
  [][\A r \in RoomIds :
       (/\ NonPersistentResident(rooms, r)
        /\ rooms[r][1].users # <<>>
        /\ NonPersistentResident(rooms', r))
       => rooms'[r][1].users # <<>>]_vars

\* the last member of a non-persistent room left and the room is gone from memory
EmptiedRoomDestroyedWitness ==
  /\ result.kind = "leave"
  /\ result.before # <<>>
  /\ ~result.before[1].persistent
  /\ Len(result.before[1].users) = 1
  /\ result.before[1].users[1].userId = result.userId
  /\ rooms[result.roomId] = <<>>

\* ---- C22
\* C22: a step in which the room r is in memory and non-persistent, before or after,
\* issues no set and no del on room:r, so what the store holds under room:r is unchanged
NonPersistentRoomsNeverTouchStore ==
  [][\A r \in RoomIds :
       (NonPersistentResident(rooms, r) \/ NonPersistentResident(rooms', r))
       => redis'.data["room:" \o r] = redis.data["room:" \o r]]_vars

\* C22, set only: whatever the store holds under a room key is a persistent room
StoredRoomsArePersistent ==
  \A k \in RedisKeys : redis.data[k] # <<>> => redis.data[k][1].persistent

\* the last member left a non-persistent room R1 and the room that the store held under
\* room:R1 is deleted
StoredRoomDeletedWitness ==
  /\ result.kind = "leave"
  /\ result.roomId = "R1"
  /\ result.before # <<>>
  /\ ~result.before[1].persistent
  /\ result.stored # <<>>
  /\ redis.data["room:R1"] = <<>>

\* ---- C23
\* the last handler was a join of a persistent room in memory, with the room's password
\* and within its capacity, while the store's set rejects
JoinDuringOutage ==
  /\ result.kind = "join"
  /\ result.storeDown
  /\ result.before # <<>>
  /\ result.before[1].persistent
  /\ result.before[1].passwordHash = hashPassword(result.password)
  /\ \/ userIndex(result.before[1].users, result.userId) # 0
     \/ Len(result.before[1].users) < result.before[1].maxUsers

\* C23: when the store's set rejects during joinRoom on a persistent room, the failure
\* is swallowed: the join returns its normal result, no error reaches the session, and
\* the user is a member of the room in memory
PersistenceFailureIsSwallowed ==
  JoinDuringOutage =>
    /\ result.ok
    /\ result.error = ""
    /\ userIndex(rooms[result.roomId][1].users, result.userId) # 0
    /\ currentRoom[result.socketId] = result.roomId

\* C23, mutation only: when the store's set rejects during joinRoom on a persistent room,
\* the user is a member of the room in memory, and the join is rejected with the store's
\* error
PersistenceFailureKeepsMutation ==
  JoinDuringOutage =>
    /\ ~result.ok
    /\ result.error = StoreError
    /\ userIndex(rooms[result.roomId][1].users, result.userId) # 0

\* B's join was rejected with the store's error: B is a member of the room in memory
\* and B's connection is in no room
RejectedJoinerIsMemberWitness ==
  /\ JoinDuringOutage
  /\ result.userId = "B"
  /\ ~result.ok
  /\ userIndex(result.before[1].users, "B") = 0
  /\ userIndex(rooms["R1"][1].users, "B") # 0
  /\ currentRoom["B"] = NoRoom

\* ---- C24
\* the last handler was an operation:undo or operation:redo
UndoOrRedo == result.kind \in {"undo", "redo"}

\* the last handler was an undo on an empty undo stack or a redo on an empty redo stack
UndoRedoOnEmptyStack ==
  \/ result.kind = "undo" /\ result.stack.undo = <<>>
  \/ result.kind = "redo" /\ result.stack.redo = <<>>

\* C24: an undo on an empty undo stack fails with EMPTY_UNDO and a redo on an empty redo
\* stack with EMPTY_REDO, and a failed undo or redo changes nothing: the objects, the
\* user's two stacks and the room's timeline are as before and nothing is broadcast
EmptyUndoRedoChangesNothing ==
  /\ UndoRedoOnEmptyStack =>
       /\ ~result.ok
       /\ result.reason = IF result.kind = "undo" THEN "EMPTY_UNDO" ELSE "EMPTY_REDO"
  /\ (UndoOrRedo /\ ~result.ok) =>
       /\ UndoRedoOnEmptyStack
       /\ rooms[result.roomId][1].objects = result.objects
       /\ userStack(result.roomId, result.userId) = result.stack
       /\ timelineByRoom[result.roomId] = result.timeline
       /\ result.broadcast = <<>>

\* an undo failed on an empty undo stack while the user's redo stack, the room's
\* timeline and the room's objects were not empty
EmptyUndoWitness ==
  /\ result.kind = "undo"
  /\ ~result.ok
  /\ result.stack.redo # <<>>
  /\ result.timeline # <<>>
  /\ result.objects # <<>>

\* ---- C25
\* the last handler was an undo or redo whose conflict check reported a conflict
UndoRedoWithConflict == UndoOrRedo /\ result.ok /\ result.conflict # <<>>

\* C25: an undo or redo that reports a conflict has applied command.undo /
\* command.execute to the objects, moved the command to the opposite stack, logged it
\* with the conflict and broadcast its effect
ConflictNeverBlocks ==
  UndoRedoWithConflict =>
    /\ rooms[result.roomId][1].objects =
         IF result.kind = "undo"
         THEN commandUndo(result.command, result.objects, result.at)
         ELSE commandExecute(result.command, result.objects, result.at)
    /\ userStack(result.roomId, result.userId) =
         IF result.kind = "undo" THEN undoStacks(result.stack) ELSE redoStacks(result.stack)
    /\ Len(timelineByRoom[result.roomId]) = Len(result.timeline) + 1
    /\ timelineByRoom[result.roomId][Len(result.timeline) + 1].conflict = result.conflict
    /\ result.broadcast # <<>>

\* A's undo of a move reported a conflict with B and put the object back where it was
\* before A's move, over B's later move
ConflictingUndoAppliedWitness ==
  /\ UndoRedoWithConflict
  /\ result.kind = "undo"
  /\ result.userId = "A"
  /\ result.command.type = UPDATE_OBJECT
  /\ result.conflict[1].lastModifiedBy = "B"
  /\ Content(rooms["R1"][1].objects, result.command.objectId)
       = result.command.before[1].position
  /\ Content(result.objects, result.command.objectId)
       # result.command.before[1].position
  /\ userStack("R1", "A").redo # <<>>

\* ---- C26
\* the last record() pushed its command as a new entry
RecordedAsNewEntry == result.kind = "record" /\ ~result.merged

\* C26: every user's undo stack holds at most maxSteps commands; a push on a stack of
\* maxSteps commands evicts the oldest one and keeps the others in their order under
\* the new command, and a push on a shorter stack evicts nothing
UndoStackWithinMaxSteps ==
  /\ \A r \in RoomIds, u \in UserIds : Len(userStack(r, u).undo) <= maxSteps
  /\ RecordedAsNewEntry =>
       userStack(result.roomId, result.userId).undo =
         IF Len(result.prevUndo) >= maxSteps
         THEN Append(Tail(result.prevUndo), result.command)
         ELSE Append(result.prevUndo, result.command)

\* a command was recorded on a full undo stack: the oldest command is gone, the second
\* oldest is now at the bottom and the new command on top
EvictedOldestWitness ==
  /\ RecordedAsNewEntry
  /\ Len(result.prevUndo) = maxSteps
  /\ Len(userStack("R1", "A").undo) = maxSteps
  /\ userStack("R1", "A").undo[1] = result.prevUndo[2]
  /\ userStack("R1", "A").undo[1] # result.prevUndo[1]
  /\ userStack("R1", "A").undo[maxSteps] = result.command

\* ---- C27
\* the command c and the recorded command of the last record() have no common mergeKey,
\* or are on different objects, or are of different users
NotMergeable(c) ==
  \/ c.mergeKey = NoKey
  \/ result.command.mergeKey = NoKey
  \/ c.mergeKey # result.command.mergeKey
  \/ c.objectId # result.command.objectId
  \/ c.userId # result.command.userId

\* C27: record never merges a command into the top of the undo stack when one of the
\* two has no mergeKey, when the mergeKeys differ, when the objectIds differ or when the
\* users differ: the command becomes an undo-stack entry of its own, and the stacks of
\* the other users are not touched
NoMergeWithoutCommonKey ==
  result.kind = "record" =>
    /\ (result.prevUndo # <<>> /\ NotMergeable(result.prevUndo[Len(result.prevUndo)])) =>
         /\ ~result.merged
         /\ userStack(result.roomId, result.userId).undo
              = Append(result.prevUndo, result.command)
    /\ \A v \in UserIds \ {result.userId} :
         stacksByRoom[result.roomId][v] = result.stacks[v]

\* an update of one object was recorded on top of an update of the other object with the
\* same mergeKey, within the merge window, as an entry of its own, while the other
\* user's newest command was an update of the same object with the same mergeKey,
\* within the merge window
NoMergeWitness ==
  /\ result.kind = "record"
  /\ result.prevUndo # <<>>
  /\ ~result.merged
  /\ LET top == result.prevUndo[Len(result.prevUndo)]
     IN /\ top.objectId # result.command.objectId
        /\ top.mergeKey = result.command.mergeKey
        /\ top.mergeKey # NoKey
        /\ result.command.timestamp - top.timestamp <= mergeWindowMs
  /\ \E v \in UserIds \ {result.userId} :
       /\ result.stacks[v] # <<>>
       /\ result.stacks[v][1].undo # <<>>
       /\ LET other == result.stacks[v][1].undo[Len(result.stacks[v][1].undo)]
          IN /\ other.objectId = result.command.objectId
             /\ other.mergeKey = result.command.mergeKey
             /\ result.command.timestamp - other.timestamp <= mergeWindowMs

\* ---- C29
\* the last handler was a successful undo or redo of an UPDATE_OBJECT command whose
\* object was not in the room
UndoRedoOfAbsentObject ==
  /\ UndoOrRedo
  /\ result.ok
  /\ result.command.type = UPDATE_OBJECT
  /\ getObject(result.objects, result.command.objectId) = <<>>

\* C29: an undo or redo of an UPDATE_OBJECT command whose object is absent changes no
\* object and broadcasts neither object-updated nor object-moved to the room
AbsentObjectUndoIsSilent ==
  UndoRedoOfAbsentObject =>
    /\ rooms[result.roomId][1].objects = result.objects
    /\ \A i \in 1..Len(result.broadcast) :
         result.broadcast[i] \notin {"object-updated", "object-moved"}

\* C29, the part about the objects: an undo or redo of an UPDATE_OBJECT command whose
\* object is absent leaves the room's objects as they were
AbsentObjectUndoChangesNoObject ==
  UndoRedoOfAbsentObject => rooms[result.roomId][1].objects = result.objects

\* A undid its move of an object that B had deleted: no object changed, and
\* object-updated and object-moved went to the room
AbsentObjectUndoBroadcastWitness ==
  /\ UndoRedoOfAbsentObject
  /\ result.kind = "undo"
  /\ result.userId = "A"
  /\ rooms[result.roomId][1].objects = <<>>
  /\ result.broadcast = <<"object-updated", "object-moved">>

\* ---- C28
\* the room r has no per-user stacks, no timeline entry and no whiteboard lock
NoLogNoLocks(r) ==
  /\ \A u \in UserIds : stacksByRoom[r][u] = <<>>
  /\ timelineByRoom[r] = <<>>
  /\ \A w \in WhiteboardIds : whiteboardLocksByRoom[r][w] = <<>>

\* C28: a room id that is not resident because the room was destroyed has no per-user
\* undo/redo stacks, no timeline entries and no whiteboard locks
DestroyedRoomHasNoLog ==
  \A r \in RoomIds : rooms[r] = <<>> => NoLogNoLocks(r)

\* C28, at the moment of destruction: when a leave has destroyed the room, the room has
\* no per-user stacks, no timeline entries and no whiteboard locks
LeaveClearsDestroyedRoom ==
  (result.kind = "leave" /\ result.before # <<>> /\ result.after = <<>>) =>
    NoLogNoLocks(result.roomId)

\* the leave of the last member destroyed a room whose timeline was not empty
LeaveClearedLogWitness ==
  /\ result.kind = "leave"
  /\ result.before # <<>>
  /\ result.after = <<>>
  /\ result.timeline # <<>>

\* ---- C30
\* C30: a record, undo or redo by one user leaves the undo stack and the redo stack of
\* every other user of the room as they were
OtherUsersStacksUnchanged ==
  [][result'.kind \in {"record", "undo", "redo"} =>
       \A v \in UserIds \ {result'.userId} :
         stacksByRoom'[result'.roomId][v] = stacksByRoom[result'.roomId][v]]_vars

\* A recorded a command while B had a command on its undo stack and one on its redo
\* stack, and B's stacks are as they were
OtherUsersStacksWitness ==
  /\ result.kind = "record"
  /\ result.userId = "A"
  /\ result.stacks["B"] # <<>>
  /\ result.stacks["B"][1].undo # <<>>
  /\ result.stacks["B"][1].redo # <<>>
  /\ stacksByRoom[result.roomId]["B"] = result.stacks["B"]

\* ---- C31
TimelineLimits == {0 - 1, 0, 1, 80, maxTimeline, maxTimeline + 1}

\* the mode of the timeline entry that the handler of the result res appends
ModeOf(res) == IF res.kind = "record" THEN "execute" ELSE res.kind

\* old with one entry of the command and the mode appended, the oldest entries dropped
\* beyond maxTimeline, is new
AppendedOne(old, new, command, mode) ==
  /\ Len(new) = IF Len(old) < maxTimeline THEN Len(old) + 1 ELSE maxTimeline
  /\ new[Len(new)].id = command.id
  /\ new[Len(new)].mode = mode
  /\ \A i \in 1..(Len(new) - 1) : new[i] = old[Len(old) - (Len(new) - 1) + i]

\* C31: every record and every successful undo and redo appends exactly one entry, of
\* mode execute, undo and redo, to the room's timeline, a merged record too; a failed
\* undo or redo appends none; the timeline holds at most maxTimeline entries and loses
\* its oldest first; getRoomTimeline(roomId, n) is the n most recent entries, newest first
TimelineAppendsOnePerOperation ==
  /\ [](\A r \in RoomIds :
          /\ Len(timelineByRoom[r]) <= maxTimeline
          /\ \A n \in TimelineLimits :
               LET got == getRoomTimeline(timelineByRoom[r], n)
                   all == timelineByRoom[r]
               IN /\ Len(got) = IF n <= 0 THEN 0 ELSE IF n < Len(all) THEN n ELSE Len(all)
                  /\ \A i \in 1..Len(got) : got[i] = all[Len(all) - i + 1])
  /\ [][(events' = events + 1 /\ result'.kind \in {"record", "undo", "redo"}) =>
          LET old == timelineByRoom[result'.roomId]
              new == timelineByRoom'[result'.roomId]
          IN IF result'.kind = "record" \/ result'.ok
             THEN AppendedOne(old, new, result'.command, ModeOf(result'))
             ELSE new = old]_vars

\* a merged update was recorded on a full timeline: the timeline is still full, its
\* newest entry is the merged command's, and its oldest entry is gone
MergedRecordOnFullTimelineWitness ==
  /\ result.kind = "record"
  /\ result.merged
  /\ Len(timelineByRoom[result.roomId]) = maxTimeline
  /\ timelineByRoom[result.roomId][1].id > 2
  /\ timelineByRoom[result.roomId][maxTimeline].id = result.command.id
  /\ timelineByRoom[result.roomId][maxTimeline].mode = "execute"

\* ---- C32
\* the history and the redoStack of every whiteboard in the list
Lists(whiteboards) ==
  [i \in 1..Len(whiteboards) |->
     [history |-> whiteboards[i].history, redoStack |-> whiteboards[i].redoStack]]

\* the whiteboard w of the list, <<>> when absent
boardOf(whiteboards, w) ==
  IF whiteboardIndex(whiteboards, w) = 0 THEN <<>>
  ELSE <<whiteboards[whiteboardIndex(whiteboards, w)]>>

\* C32: on a whiteboard with a non-empty history, undoWhiteboardAction followed by
\* redoWhiteboardAction leaves history and redoStack as they were; an undo on an empty
\* history and a redo on an empty redoStack change neither list; appendWhiteboardAction
\* leaves the redoStack empty
UndoThenRedoRestoresLists ==
  /\ \A r \in RoomIds, w \in WhiteboardIds, u \in UserIds :
       LET boards == whiteboardsOf(rooms[r])
           board == boardOf(boards, w)
       IN board # <<>> =>
            /\ board[1].history # <<>> =>
                 Lists(redoWhiteboardAction(undoWhiteboardAction(boards, w, u, now),
                                            w, u, now)) = Lists(boards)
            /\ board[1].history = <<>> =>
                 Lists(undoWhiteboardAction(boards, w, u, now)) = Lists(boards)
            /\ board[1].redoStack = <<>> =>
                 Lists(redoWhiteboardAction(boards, w, u, now)) = Lists(boards)
            /\ boardOf(appendWhiteboardAction(boards, w, [type |-> "stroke"], u, now),
                       w)[1].redoStack = <<>>
  /\ (result.kind = "whiteboard" /\ boardOf(result.before, result.whiteboardId) # <<>>) =>
       LET before == boardOf(result.before, result.whiteboardId)[1]
       IN /\ (result.action = "undo" /\ before.history = <<>>) =>
               Lists(whiteboardsOf(rooms[result.roomId])) = Lists(result.before)
          /\ (result.action = "redo" /\ before.redoStack = <<>>) =>
               Lists(whiteboardsOf(rooms[result.roomId])) = Lists(result.before)
  /\ (result.kind = "draw" /\ result.appended) =>
       boardOf(whiteboardsOf(rooms[result.roomId]), result.whiteboardId)[1].redoStack = <<>>

\* a redo has put back the action that an undo had moved to the redoStack, on a
\* whiteboard that had other actions in its history and in its redoStack: undoing again
\* gives the lists the redo started from
UndoRedoRoundTripWitness ==
  /\ result.kind = "whiteboard"
  /\ result.action = "redo"
  /\ boardOf(result.before, result.whiteboardId) # <<>>
  /\ boardOf(result.before, result.whiteboardId)[1].history # <<>>
  /\ Len(boardOf(result.before, result.whiteboardId)[1].redoStack) > 1
  /\ Lists(whiteboardsOf(rooms[result.roomId])) # Lists(result.before)
  /\ Lists(undoWhiteboardAction(whiteboardsOf(rooms[result.roomId]), result.whiteboardId,
                                result.userId, now)) = Lists(result.before)

\* ---- C33
\* C33: every whiteboard's history holds at most 500 actions and its redoStack holds at
\* most 500 actions, whatever intents have occurred and whatever payloads they carried
WhiteboardListsWithinCap ==
  \A r \in RoomIds :
    \A i \in 1..Len(whiteboardsOf(rooms[r])) :
      /\ Len(whiteboardsOf(rooms[r])[i].history) <= maxWhiteboardHistory
      /\ Len(whiteboardsOf(rooms[r])[i].redoStack) <= maxWhiteboardHistory

\* C33, the part that appendWhiteboardAction enforces: after an appended draw the
\* whiteboard's history holds at most 500 actions and its redoStack is empty
AppendRestoresCap ==
  (result.kind = "draw" /\ result.appended) =>
    LET board == boardOf(whiteboardsOf(rooms[result.roomId]), result.whiteboardId)[1]
    IN /\ Len(board.history) <= maxWhiteboardHistory
       /\ board.redoStack = <<>>

\* a draw was appended to a whiteboard whose history, taken from a whiteboard:create
\* payload, held 501 actions
AppendAfterLongPayloadWitness ==
  /\ result.kind = "draw"
  /\ result.appended
  /\ Len(result.previous) = maxWhiteboardHistory + 1
  /\ Len(boardOf(whiteboardsOf(rooms[result.roomId]), result.whiteboardId)[1].history)
       = maxWhiteboardHistory

\* ---- C34
\* C34: for any two accepted mutations of one object, the order in which the store
\* applied them is the order of their broadcasts and of their timeline entries, also
\* when the handlers overlap at their store calls; when no handler is suspended, the
\* last broadcast carries the store's value of the object
BroadcastOrderIsStoreOrder ==
  /\ \A i, j \in 1..Len(emitted) :
       (i < j /\ emitted[i].objectId = emitted[j].objectId) =>
         emitted[i].version <= emitted[j].version
  /\ \A r \in RoomIds : \A i, j \in 1..Len(timelineByRoom[r]) :
       i < j =>
         \A a, b \in 1..Len(emitted) :
           (/\ emitted[a].commandId = timelineByRoom[r][i].id
            /\ emitted[b].commandId = timelineByRoom[r][j].id
            /\ emitted[a].objectId = emitted[b].objectId) =>
             emitted[a].version <= emitted[b].version
  /\ (~Overlapping /\ emitted # <<>>) =>
       \A r \in RoomIds :
         Content(rooms[r][1].objects, emitted[Len(emitted)].objectId)
           = emitted[Len(emitted)].position

\* C34, without the overlap: a handler whose mutation is still the store's latest when
\* it resumes broadcasts the store's value of the object
LatestMutationBroadcastsStoreValue ==
  (/\ result.kind = "record"
   /\ emitted # <<>>
   /\ emitted[Len(emitted)].commandId = result.command.id
   /\ getObject(rooms[result.roomId][1].objects, result.command.objectId) # <<>>
   /\ getObject(rooms[result.roomId][1].objects, result.command.objectId)[1]._version
        = emitted[Len(emitted)].version) =>
    Content(rooms[result.roomId][1].objects, result.command.objectId)
      = emitted[Len(emitted)].position

\* B's update began while A's was waiting for the store, A's resumed first and B's
\* second: the broadcasts are in the store's order and the last carries the store's value
OverlapInOrderWitness ==
  /\ result.kind = "record"
  /\ Len(emitted) = 4
  /\ emitted[1].userId = "A"
  /\ emitted[3].userId = "B"
  /\ emitted[3].overlaps
  /\ emitted[1].version < emitted[3].version
  /\ emitted[1].position # emitted[3].position
  /\ emitted[3].commandId = result.command.id
  /\ ~Overlapping
  /\ Content(rooms["R1"][1].objects, "o1") = emitted[4].position

\* ---- C35
\* the connection s is in a room that is resident and has the connection's user as member
SessionIsMember(s) ==
  /\ rooms[currentRoom[s]] # <<>>
  /\ userIndex(rooms[currentRoom[s]][1].users, userIdOf(s)) # 0

\* C35: every connected session whose current room is R has its userId in R.users, also
\* after a reconnect whose old session leaves later: the user remains a member of R and
\* R is not destroyed
SessionsInRoomAreMembers ==
  \A s \in SocketIds : currentRoom[s] # NoRoom => SessionIsMember(s)

\* C35, for the other users: a leave removes no member but the leaving user
LeaveKeepsOtherMembers ==
  (result.kind = "leave" /\ result.before # <<>>) =>
    \A i \in 1..Len(result.before[1].users) :
      result.before[1].users[i].userId # result.userId =>
        /\ rooms[result.roomId] # <<>>
        /\ userIndex(rooms[result.roomId][1].users, result.before[1].users[i].userId) # 0

\* A reconnected on the connection A2, which replaced the stored socketId, and then the
\* old connection left: B is still a member, A is not, and A2's current room is still R1
OldSessionLeftAfterReconnectWitness ==
  /\ result.kind = "leave"
  /\ result.userId = "A"
  /\ result.before # <<>>
  /\ userIndex(result.before[1].users, "A") # 0
  /\ result.before[1].users[userIndex(result.before[1].users, "A")].socketId = "A2"
  /\ userIndex(result.before[1].users, "B") # 0
  /\ currentRoom["A"] = NoRoom
  /\ currentRoom["A2"] = "R1"
  /\ rooms["R1"] # <<>>
  /\ userIndex(rooms["R1"][1].users, "B") # 0
  /\ userIndex(rooms["R1"][1].users, "A") = 0

\* ---- C36
\* the last handler was a failed join for a room other than the session's current room
FailedSwitch ==
  /\ result.kind = "join"
  /\ ~result.ok
  /\ result.previousRoomId # NoRoom
  /\ result.previousRoomId # result.roomId

\* C36: when a session that is a member of R1 sends a join for another room and the
\* join fails, the user is still a member of R1, R1 has not been destroyed and the
\* session's current room is still R1
FailedJoinKeepsCurrentRoom ==
  FailedSwitch =>
    /\ currentRoom[result.socketId] = result.previousRoomId
    /\ rooms[result.previousRoomId] # <<>>
    /\ userIndex(rooms[result.previousRoomId][1].users, result.userId) # 0

\* C36, what the handler does: after a failed join for another room the session is in
\* no room, and the room it asked for is as it was
FailedJoinLeavesSessionInNoRoom ==
  FailedSwitch =>
    /\ currentRoom[result.socketId] = NoRoom
    /\ rooms[result.roomId] = result.before

\* A, the only member of R1, asked for the full room R2: the join failed, R1 is gone
\* and A's session is in no room
FailedSwitchDestroyedRoomWitness ==
  /\ FailedSwitch
  /\ result.socketId = "A"
  /\ result.error = "Room is full"
  /\ result.previousRoomId = "R1"
  /\ rooms["R1"] = <<>>
  /\ currentRoom["A"] = NoRoom

\* ---- C37
\* the members of the resident room r whose derived role is host
Hosts(r) ==
  {i \in 1..Len(rooms[r][1].users) :
     getUserRole(rooms[r], rooms[r][1].users[i].userId) = "host"}

\* C37: a room with at least one member has exactly one member whose derived role is
\* host: room.ownerId is not null and is the userId of a current member
RoomWithMembersHasOneHost ==
  \A r \in RoomIds :
    (rooms[r] # <<>> /\ rooms[r][1].users # <<>>) =>
      /\ rooms[r][1].ownerId # NoUser
      /\ userIndex(rooms[r][1].users, rooms[r][1].ownerId) # 0
      /\ Cardinality(Hosts(r)) = 1

\* C37, the part that joinRoom and leaveRoom keep: a room with at least one member has
\* an ownerId that is not null, and at most one member has the role host
RoomWithMembersHasOwner ==
  \A r \in RoomIds :
    (rooms[r] # <<>> /\ rooms[r][1].users # <<>>) =>
      /\ rooms[r][1].ownerId # NoUser
      /\ Cardinality(Hosts(r)) <= 1

\* a room has members and an owner, and none of its members has the role host
RoomWithoutHostWitness ==
  \E r \in RoomIds :
    /\ rooms[r] # <<>>
    /\ rooms[r][1].users # <<>>
    /\ rooms[r][1].ownerId # NoUser
    /\ Hosts(r) = {}

\* ---- C38
\* the ids of the commands of a list
Ids(list) == [i \in 1..Len(list) |-> list[i].id]

\* the number of the undo request that popped the command with this id last, among the
\* undos that have returned (0: none)
LastPopped(id) ==
  LET events_ == {k \in 1..Len(emitted) : emitted[k].commandId = id}
  IN IF events_ = {} THEN 0
     ELSE emitted[CHOOSE k \in events_ : \A m \in events_ : m <= k].popped

\* C38: for one user, overlapping undo requests keep stack order: the command popped
\* most recently is on top of the redo stack, whatever the order in which the undos'
\* store calls return; no command is in both stacks or twice in either
OverlappingUndosKeepOrder ==
  \A r \in RoomIds, u \in UserIds :
    LET stack == userStack(r, u)
    IN /\ \A i, j \in 1..Len(stack.redo) :
            i < j => LastPopped(stack.redo[i].id) < LastPopped(stack.redo[j].id)
       /\ \A i, j \in 1..Len(stack.undo \o stack.redo) :
            i # j => (stack.undo \o stack.redo)[i].id # (stack.undo \o stack.redo)[j].id

\* C38, the second part: no command is in both stacks of a user or twice in either, nor
\* in a stack while an undo that popped it waits for its store call
CommandInOnePlace ==
  \A r \in RoomIds, u \in UserIds :
    LET stack == userStack(r, u)
        held == [k \in 1..Len(inflight[u]) |-> inflight[u][k].command]
        all == Ids(stack.undo \o stack.redo \o held)
    IN \A i, j \in 1..Len(all) : i # j => all[i] # all[j]

\* two undos of A overlapped and both have returned, the later one first: both commands
\* are on the redo stack, each once, and the undo stack holds neither
OverlappingUndosWitness ==
  /\ result.kind = "undo"
  /\ result.ok
  /\ ~Overlapping
  /\ Len(userStack("R1", "A").redo) = 2
  /\ LastPopped(userStack("R1", "A").redo[1].id) > LastPopped(userStack("R1", "A").redo[2].id)
  /\ \A i \in 1..Len(userStack("R1", "A").undo) :
       userStack("R1", "A").undo[i].id \notin
         {userStack("R1", "A").redo[1].id, userStack("R1", "A").redo[2].id}

\* ---- C39
\* what WorkerBridge.execute did last is what the health flags prescribed
ExecuteFollowsHealth ==
  /\ (result.kind \in {"execute", "select"} /\ result.step = "begin") =>
       IF \A k \in 1..Len(result.before) : ~result.before[k].healthy
       THEN result.kind = "execute" /\ ~result.ok
            /\ result.error = "No healthy workers available"
       ELSE result.kind = "select" /\ result.attempt = 1
  /\ result.kind = "select" =>
       /\ isHealthy(result.before, result.worker)
       /\ result.attempt \in {1, 2}
       /\ result.attempt = 2 =>
            /\ result.step = "end"
            /\ result.worker # result.failed
            /\ ~isHealthy(result.before, result.failed)
  /\ (result.kind = "execute" /\ result.step = "end" /\ ~result.ok) =>
       IF result.attempt = 1
       THEN /\ result.error = "All workers failed"
            /\ \A k \in 1..Len(result.before) : ~result.before[k].healthy
       ELSE result.attempt = 2 /\ result.error = "Worker task failed"
  /\ \A s \in SocketIds : \A i \in 1..Len(inflight[s]) :
       inflight[s][i].handler = "execute" => inflight[s][i].attempt \in {1, 2}

\* a worker becomes healthy only by the health check's answer for that worker
OnlyHealthCheckHeals ==
  \A k \in 1..Len(WorkerNames) :
    (~bridge.workers[k].healthy /\ bridge'.workers[k].healthy) =>
      (bridge.checking = k /\ result'.kind = "health")

\* C39: execute fails with 'No healthy workers available' when no worker is healthy;
\* otherwise it runs the task on a healthy worker, on failure marks that worker
\* unhealthy and retries exactly once on a different healthy worker, failing with
\* 'All workers failed' when there is none; a worker marked unhealthy is not selected
\* until a health check marks it healthy
ExecuteSelectsHealthyWorkers ==
  /\ []ExecuteFollowsHealth
  /\ [][OnlyHealthCheckHeals]_vars

\* the first worker failed and the task is retried on the other, healthy, worker
RetryOnFallbackWitness ==
  /\ result.kind = "select"
  /\ result.attempt = 2
  /\ ~isHealthy(bridge.workers, result.failed)
  /\ isHealthy(bridge.workers, result.worker)

====
